---- MODULE Spec2Model ----
(***************************************************************************)
(* Inspection reconciliation engine of asset-workorder-updates-ljb.py.     *)
(*                                                                         *)
(* Two generations of the script are modelled:                             *)
(*   legacy  : src/asset-workorder-updates-ljb.py        (Operator / PE)   *)
(*   unified : src/script/asset-workorder-updates-ljb.py (asset layers,    *)
(*             permanent work-order points, work-order table)              *)
(*                                                                         *)
(* Time.  Timestamps are epoch milliseconds in the source.  The model      *)
(* counts them in ticks of 43,200,000 ms (12 hours, the "Shift Start"      *)
(* interval), the largest unit that divides every duration the scripts     *)
(* use.  The local time zone is a fixed offset, so that tick 0 is local    *)
(* midnight of 1 January of BaseYear.                                      *)
(***************************************************************************)
EXTENDS Integers, Sequences, FiniteSets, TLC

VARIABLES
    today,               \* datetime.now() of the run (a datetime record)
    pc,                  \* position of the main program
    idx,                 \* position of the loop over asset_dict
    phase,               \* legacy: which half of the loop body is next
    assets_lyr,          \* remote asset layer(s): sequence of features
    work_orders_lyr,     \* remote work-order layer: sequence of features
    work_orders_tbl,     \* unified: remote work-order table: sequence of rows
    asset_dict,          \* snapshot built by buildQueryDictionaries
    op_work_order_dict,  \* legacy snapshot: HazardID -> Operator work order
    pe_work_order_dict,  \* legacy snapshot: HazardID -> PE work order
    wo_table_dict,       \* unified snapshot of the work-order table
    work_orders_dict,    \* unified snapshot: RELAssetID -> work-order point
    report,              \* the report dictionaries updateServices fills
    calls,               \* remote write requests issued so far, in order
    paths,               \* the local variable `paths` of updateServices
    wo_attachments,      \* attachments held by the work-order layer
    last,                \* what the latest loop step read and decided
    eom,                 \* End-of-Month resolution: input and result
    snapshot,            \* the remote layers as buildQueryDictionaries read them
    list_lyr,            \* remote list layer: sequence of features
    workbook,            \* the Excel workbook of the run and where it is
    mail,                \* messages handed to the SMTP host, in order
    run,                 \* the number of the run, counting from 1
    most_recent_wo_globalid  \* the row chosen by the scan of wo_table_dict

vars == <<today, pc, idx, phase, assets_lyr, work_orders_lyr, work_orders_tbl,
          asset_dict, op_work_order_dict, pe_work_order_dict, wo_table_dict,
          work_orders_dict, report, calls, paths, wo_attachments, last, eom,
          snapshot, list_lyr, workbook, mail, run, most_recent_wo_globalid>>

(***************************************************************************)
(* Bounds of the model                                                     *)
(***************************************************************************)
NumAssets == 2          \* features in the asset layer
TodayTick == 1601       \* the instant of the run, in ticks

(***************************************************************************)
(* Time and interval utilities                                             *)
(***************************************************************************)
None == 0               \* a null attribute (timestamps are positive)

TicksPerDay == 2        \* 86,400,000 ms = 2 ticks of 43,200,000 ms

\* datetime.fromtimestamp(ms / 1000): the local calendar day and the time of
\* day of an instant.
fromtimestamp(t) == [day |-> t \div TicksPerDay, tod |-> t % TicksPerDay]

\* The instant of a datetime (what the feature service stores for it).
timestamp(dt) == dt.day * TicksPerDay + dt.tod

\* (a - b).days of two datetimes: timedelta normalises to 0 <= seconds < 1 day,
\* so .days is the floor of the difference in days.
days(a, b) == (timestamp(a) - timestamp(b)) \div TicksPerDay

\* a < b on datetimes.
before(a, b) == \/ a.day < b.day
                \/ a.day = b.day /\ a.tod < b.tod

\* dt + timedelta(days = n)
plusdays(dt, n) == [day |-> dt.day + n, tod |-> dt.tod]

NoDate == [day |-> 0, tod |-> 0]

(***************************************************************************)
(* Dictionaries and the shared shape of a loop step                        *)
(***************************************************************************)
EmptyDict == [k \in {} |-> None]

\* d[k] = v of a Python dict
Put(d, k, v) == [x \in DOMAIN d \cup {k} |-> IF x = k THEN v ELSE d[x]]

\* The state a loop step works on: the remote layers, the report
\* dictionaries, the requests issued, the local `paths`, the attachments of
\* the work-order layer, and whether an exception has left the step.
StepState == [assets |-> assets_lyr, lyr |-> work_orders_lyr, rep |-> report,
              calls |-> calls, paths |-> paths, att |-> wo_attachments,
              raised |-> FALSE, branch |-> "skip"]

\* One remote write request, as the feature service receives it.
Call(op, kind, key, oid, due, lastinsp, status, ok) ==
    [op |-> op, kind |-> kind, key |-> key, oid |-> oid, due |-> due,
     last |-> lastinsp, status |-> status, ok |-> ok]

Raise(st) == [st EXCEPT !.raised = TRUE]

\* The remote calls of a loop step that the environment may fail.
Faults == {"none", "insert", "query", "get_list", "download", "upload",
           "asset_update", "wo_update"}

\* Nothing queried yet; no workbook created yet.
NoSnapshot == [assets |-> <<>>, lyr |-> <<>>]

NoWorkbook == [at |-> "nowhere", sheets |-> EmptyDict]

(***************************************************************************)
(* Legacy model: src/asset-workorder-updates-ljb.py                        *)
(***************************************************************************)
LeadOp == 40            \* days_till_due <= 40
LeadPE == 375           \* days_till_due <= 375

Lead(kind) == IF kind = "OP" THEN LeadOp ELSE LeadPE

\* asset_dict value fields 7 / 10, 6 / 9 of the pass at hand
NextInspect(kind, a) == IF kind = "OP" THEN a.NextOpInspect ELSE a.NextPEInspect

Frequency(kind, a) == IF kind = "OP" THEN a.OperatorFrequency ELSE a.PEFrequency

\* The work orders of one assignment class, in layer order (the two
\* work_orders_lyr.query(...) calls of buildQueryDictionaries).
WorkOrdersOfType(lyr, kind) == SelectSeq(lyr, LAMBDA w : w.AssignmentType = kind)

AssetKeys(ad) == {ad[i].HazardID : i \in 1..Len(ad)}

AssetOf(ad, h) == ad[CHOOSE i \in 1..Len(ad) : ad[i].HazardID = h]

\* Mutant: the HazardID is not tested.
LegacyAssetDict_AnyHazardID(feats) ==
    SelectSeq(feats, LAMBDA a : a.NextOpInspect # None \/ a.NextPEInspect # None)

\* asset_dict: the assets with a due date for Operator or PE and a HazardID.
LegacyAssetDict(feats) ==
    SelectSeq(feats, LAMBDA a : /\ (a.NextOpInspect # None \/ a.NextPEInspect # None)
                                /\ a.HazardID # None)

\* The due date a work order of the class must carry to be entered in the
\* dictionary.  Both loops compare with asset_dict[...][7], NextOpInspect.
CorrelationDate(kind, a) == a.NextOpInspect

\* op_work_order_dict / pe_work_order_dict: per HazardID of asset_dict the
\* last work order of the class, in layer order, whose AssignmentDueDate
\* equals the correlation date.
WorkOrderDict(lyr, ad, kind) ==
    LET match(h) == SelectSeq(WorkOrdersOfType(lyr, kind),
                      LAMBDA w : /\ w.HazardID = h
                                 /\ w.AssignmentDueDate = CorrelationDate(kind, AssetOf(ad, h)))
        keys == {h \in AssetKeys(ad) : Len(match(h)) > 0}
    IN [h \in keys |-> match(h)[Len(match(h))]]

\* Mutant: the frequency added as if it were in ticks, not days.
NextDueDate_NoDayFactor(next_insp, freq) == next_insp + freq

\* next_due_date_agol = op_next_insp + (op_freq*86400000)
NextDueDate(next_insp, freq) == next_insp + freq * TicksPerDay

\* The condition on which a work order is created for an asset without a
\* correlated one: days_till_due = (today - duedate).days; days_till_due <= lead
WithinLead(kind, now, duedate) == days(now, duedate) <= Lead(kind)

\* Mutant: the subtraction the other way round.
DaysOverdue_Reversed(now, duedate) == days(duedate, now)

\* days_overdue = (today - duedate).days
DaysOverdue(now, duedate) == days(now, duedate)

\* if duedate < today
IsOverdue(now, duedate) == before(duedate, now)

ReportName(kind, bucket) ==
    IF kind = "OP" THEN (CASE bucket = "upcoming" -> "op_upcoming"
                           [] bucket = "completed" -> "op_completed"
                           [] OTHER -> "op_overdue")
    ELSE (CASE bucket = "upcoming" -> "pe_upcoming"
            [] bucket = "completed" -> "pe_completed"
            [] OTHER -> "pe_overdue")

\* op_upcoming[hazard_id] = [...] and its five siblings
Record(st, kind, bucket, h, row) ==
    LET n == ReportName(kind, bucket)
    IN [st EXCEPT !.rep = [st.rep EXCEPT ![n] = Put(st.rep[n], h, row)]]

Row(due, complete, overdue) == [due |-> due, complete |-> complete, days_overdue |-> overdue]

NextOid(lyr) == Len(lyr) + 1

\* work_orders.edit_features(adds = [add_dict]) inside its try/except
AddWorkOrder(st, kind, a, due, f) ==
    LET wo == [OBJECTID |-> NextOid(st.lyr), HazardID |-> a.HazardID,
               AssignmentType |-> kind, AssignmentDueDate |-> due,
               AssignmentStatus |-> "Assigned", CompleteDate |-> None]
        c(ok) == Call("add_wo", kind, a.HazardID, None, due, None, "Assigned", ok)
    IN IF f = "insert"
       THEN [st EXCEPT !.calls = Append(@, c(FALSE))]
       ELSE [st EXCEPT !.lyr = Append(@, wo), !.calls = Append(@, c(TRUE))]

\* The work orders a query for the new work order returns: by HazardID alone
\* when the asset had no work order, by HazardID and due date after a
\* completed one.
NewWorkOrderQuery(lyr, h, due, bydue) ==
    SelectSeq(lyr, LAMBDA w : w.HazardID = h /\ (bydue => w.AssignmentDueDate = due))

\* "add attachments": query(...).features[0], attachments.get_list,
\* attachments.download in a try/except, attachments.add per path in a
\* try/except.  A failed download leaves `paths` as the previous step left
\* it: unbound (a NameError), or the files of a temporary directory that is
\* gone (every upload then fails and is caught).
AddAttachments(st, kind, a, due, bydue, f) ==
    LET found == NewWorkOrderQuery(st.lyr, a.HazardID, due, bydue)
        new_oid == found[1].OBJECTID
        download(ok) == Call("download", kind, a.HazardID, a.OBJECTID, None, None, "", ok)
        add(ok) == Call("add_attachment", kind, a.HazardID, new_oid, None, None, "", ok)
    IN IF f = "query" \/ Len(found) = 0 THEN Raise(st)
       ELSE IF f = "get_list" THEN Raise(st)
       ELSE IF ~a.attachments THEN st
       ELSE IF f = "download"
            THEN (IF st.paths = None
                  THEN Raise([st EXCEPT !.calls = Append(@, download(FALSE))])
                  ELSE [st EXCEPT !.calls = Append(@, download(FALSE))])
       ELSE IF f = "upload"
            THEN [st EXCEPT !.paths = a.OBJECTID, !.calls = Append(@, add(FALSE))]
       ELSE [st EXCEPT !.paths = a.OBJECTID,
                       !.att = @ \cup {[wo |-> new_oid, asset |-> a.OBJECTID]},
                       !.calls = Append(@, add(TRUE))]

\* asset_edit = assets.query('HazardID = ..').features[0]; set the last and
\* next inspection fields; assets.edit_features(updates = [asset_edit])
UpdateAsset(st, kind, a, complete_date_agol, next_due_date_agol, f) ==
    LET i == CHOOSE j \in 1..Len(st.assets) : st.assets[j].HazardID = a.HazardID
        c(ok) == Call("update_asset", kind, a.HazardID, st.assets[i].OBJECTID,
                      next_due_date_agol, complete_date_agol, "", ok)
    IN IF f = "asset_update" THEN Raise([st EXCEPT !.calls = Append(@, c(FALSE))])
       ELSE IF kind = "OP"
       THEN [st EXCEPT !.assets[i].LastOpInspect = complete_date_agol,
                       !.assets[i].NextOpInspect = next_due_date_agol,
                       !.calls = Append(@, c(TRUE))]
       ELSE [st EXCEPT !.assets[i].InspectDate = complete_date_agol,
                       !.assets[i].NextPEInspect = next_due_date_agol,
                       !.calls = Append(@, c(TRUE))]

\* Mutant: the overdue work order is deleted instead of updated.
MarkOverdue_Delete(st, kind, h, wo_obj_id, f) ==
    LET c(ok) == Call("delete", kind, h, wo_obj_id, None, None, "", ok)
    IN IF f = "wo_update" THEN Raise([st EXCEPT !.calls = Append(@, c(FALSE))])
       ELSE [st EXCEPT !.lyr = SelectSeq(@, LAMBDA w : w.OBJECTID # wo_obj_id),
                       !.calls = Append(@, c(TRUE))]

\* work_order_edit = work_orders.query('OBJECTID = ..').features[0];
\* AssignmentStatus = 'Overdue'; work_orders.edit_features(updates = [..])
MarkOverdue(st, kind, h, wo_obj_id, f) ==
    LET i == CHOOSE j \in 1..Len(st.lyr) : st.lyr[j].OBJECTID = wo_obj_id
        c(ok) == Call("update_wo", kind, h, wo_obj_id, None, None, "Overdue", ok)
    IN IF f = "wo_update" THEN Raise([st EXCEPT !.calls = Append(@, c(FALSE))])
       ELSE [st EXCEPT !.lyr[i].AssignmentStatus = "Overdue",
                       !.calls = Append(@, c(TRUE))]

Branch(st, b) == [st EXCEPT !.branch = b]

\* Due date set and no work order in the dictionary.
NoWorkOrder(st, kind, a, now, f) ==
    LET next == NextInspect(kind, a)
        duedate == fromtimestamp(next)
    IN IF WithinLead(kind, now, duedate)
       THEN AddAttachments(
              AddWorkOrder(Record(Branch(st, "create"), kind, "upcoming", a.HazardID,
                                  Row(duedate, NoDate, None)),
                           kind, a, next, f),
              kind, a, next, FALSE, f)
       ELSE Branch(st, "none")

\* Due date set and the work order of the dictionary is Completed.
CompletedWorkOrder(st, kind, a, wo, f) ==
    LET next == NextInspect(kind, a)
        duedate == fromtimestamp(next)
        complete_date_agol == wo.CompleteDate
        next_due_date_agol == NextDueDate(next, Frequency(kind, a))
        next_due_date == fromtimestamp(next_due_date_agol)
        days_till_due == days(next_due_date, duedate)
        done == Record(st, kind, "completed", a.HazardID,
                       Row(NoDate, fromtimestamp(complete_date_agol), None))
    IN IF complete_date_agol = None THEN Raise(Branch(st, "completed"))
       ELSE IF days_till_due <= Lead(kind)
       THEN LET s1 == AddAttachments(
                        AddWorkOrder(Record(Branch(done, "renew"), kind, "upcoming",
                                            a.HazardID, Row(next_due_date, NoDate, None)),
                                     kind, a, next_due_date_agol, f),
                        kind, a, next_due_date_agol, TRUE, f)
            IN IF s1.raised THEN s1
               ELSE UpdateAsset(s1, kind, a, complete_date_agol, next_due_date_agol, f)
       ELSE UpdateAsset(Branch(done, "completed"), kind, a, complete_date_agol,
                        next_due_date_agol, f)

\* Due date set and the work order of the dictionary is not Completed.
OpenWorkOrder(st, kind, a, wo, now, f) ==
    LET duedate == fromtimestamp(wo.AssignmentDueDate)
    IN IF IsOverdue(now, duedate)
       THEN MarkOverdue(Record(Branch(st, "overdue"), kind, "overdue", a.HazardID,
                               Row(duedate, NoDate, DaysOverdue(now, duedate))),
                        kind, a.HazardID, wo.OBJECTID, f)
       ELSE Record(Branch(st, "upcoming"), kind, "upcoming", a.HazardID,
                   Row(duedate, NoDate, None))

\* One half (OPERATOR or PE) of the loop body of updateServices for asset a.
InspectionPass(st, kind, a, d, now, f) ==
    IF NextInspect(kind, a) = None THEN Branch(st, "skip")
    ELSE IF a.HazardID \notin DOMAIN d THEN NoWorkOrder(st, kind, a, now, f)
    ELSE IF d[a.HazardID].AssignmentStatus = "Completed"
         THEN CompletedWorkOrder(st, kind, a, d[a.HazardID], f)
    ELSE OpenWorkOrder(st, kind, a, d[a.HazardID], now, f)

(***************************************************************************)
(* Legacy model: the remote store a run may find                           *)
(***************************************************************************)
\* Due dates, as offsets from the run in ticks, of an asset without a work
\* order: either side of the lead window, a few days either side of today.
DueOffsets(kind) ==
    {-(Lead(kind) + 1) * TicksPerDay, 1 - (Lead(kind) + 1) * TicksPerDay,
     -5 * TicksPerDay, -1, 10 * TicksPerDay, (Lead(kind) + 1) * TicksPerDay}

OpenOffsets(kind) ==
    IF kind = "OP" THEN {-5 * TicksPerDay, -1, 0, 10 * TicksPerDay}
    ELSE {-5 * TicksPerDay, 10 * TicksPerDay}

Frequencies(kind) == IF kind = "OP" THEN {30, 90} ELSE {365, 730}

CompletionLags(kind) == IF kind = "OP" THEN {0, 3} ELSE {3}

\* One half (Operator or PE) of an asset and its work order of that class:
\* the due date; the status of the work order carrying that due date, "none"
\* without one, "stale" with only a completed one of the cycle before; the
\* frequency in days; how long before the due date the work order was
\* completed (ticks).
Side(next, wo, freq, lag) == [next |-> next, wo |-> wo, freq |-> freq, lag |-> lag]

NoSide == Side(None, "none", 30, 0)

Sides(kind) ==
    {NoSide}
    \cup {Side(TodayTick + o, "none", 30, 0) : o \in DueOffsets(kind)}
    \cup {Side(TodayTick + o, "Assigned", 30, 0) : o \in OpenOffsets(kind)}
    \cup (IF kind = "OP"
          THEN {Side(TodayTick - 5 * TicksPerDay, "Overdue", 30, 0)}
               \cup {Side(TodayTick + o, "stale", 30, 0) :
                       o \in {-5 * TicksPerDay, 10 * TicksPerDay}}
          ELSE {})
    \cup {Side(TodayTick - 5 * TicksPerDay, "Completed", f, g) :
            f \in Frequencies(kind), g \in CompletionLags(kind)}
    \cup (IF kind = "OP"
          THEN {Side(TodayTick - 60 * TicksPerDay, "Completed", 90, 0)}
          ELSE {})

Profile(hazard, op, pe, att) == [hazard |-> hazard, op |-> op, pe |-> pe, att |-> att]

\* What every asset of the layer may be ...
PlainProfiles ==
    {Profile(TRUE, Side(TodayTick + 10 * TicksPerDay, "none", 30, 0), NoSide, TRUE),
     Profile(TRUE, Side(TodayTick - 5 * TicksPerDay, "Assigned", 30, 0), NoSide, FALSE),
     Profile(TRUE, NoSide, Side(TodayTick + 10 * TicksPerDay, "none", 30, 0), FALSE),
     Profile(TRUE, NoSide, NoSide, FALSE),
     Profile(FALSE, Side(TodayTick + 10 * TicksPerDay, "none", 30, 0), NoSide, FALSE)}

\* ... and what one asset of the layer may be.
Profiles ==
    PlainProfiles
    \cup {Profile(TRUE, o, p, a) : o \in Sides("OP"), p \in Sides("PE"), a \in BOOLEAN}

HazardIDOf(i) == 100 + i

LegacyAssetFeature(i, p) ==
    [OBJECTID |-> i,
     HazardID |-> IF p.hazard THEN HazardIDOf(i) ELSE None,
     NextOpInspect |-> p.op.next, LastOpInspect |-> None,
     OperatorFrequency |-> p.op.freq,
     NextPEInspect |-> p.pe.next, InspectDate |-> None,
     PEFrequency |-> p.pe.freq,
     attachments |-> p.att]

WorkOrder(h, kind, due, status, complete) ==
    [OBJECTID |-> None, HazardID |-> h, AssignmentType |-> kind,
     AssignmentDueDate |-> due, AssignmentStatus |-> status, CompleteDate |-> complete]

\* The work orders the layer holds for asset i: an older, completed Operator
\* work order of the cycle before (stale), and per class the work order that
\* carries the asset's due date.
LegacyWorkOrdersOf(i, p) ==
    LET h == HazardIDOf(i)
        before_(s) == s.next - s.freq * TicksPerDay
        one(kind, s) ==
            IF s.wo = "none" \/ s.next = None THEN <<>>
            ELSE IF s.wo = "stale"
            THEN <<WorkOrder(h, kind, before_(s), "Completed", before_(s))>>
            ELSE <<WorkOrder(h, kind, s.next, s.wo,
                             IF s.wo = "Completed" THEN s.next - s.lag ELSE None)>>
    IN IF p.hazard THEN one("OP", p.op) \o one("PE", p.pe) ELSE <<>>

RECURSIVE LegacyWorkOrders(_, _)
LegacyWorkOrders(ps, n) ==
    IF n = 0 THEN <<>> ELSE LegacyWorkOrders(ps, n - 1) \o LegacyWorkOrdersOf(n, ps[n])

Numbered(lyr) == [j \in 1..Len(lyr) |-> [lyr[j] EXCEPT !.OBJECTID = j]]

(***************************************************************************)
(* Legacy model: the run                                                   *)
(***************************************************************************)
EmptyReport == [op_upcoming |-> EmptyDict, op_completed |-> EmptyDict,
                op_overdue |-> EmptyDict, pe_upcoming |-> EmptyDict,
                pe_completed |-> EmptyDict, pe_overdue |-> EmptyDict]

\* The start of a run: every asset of the layer is one of plain, one asset is
\* one of any, and the list layer is one of lists.
StartLegacy(plain, any, lists) ==
    /\ today = fromtimestamp(TodayTick)
    /\ pc = "build"
    /\ idx = 1
    /\ phase = "OP"
    /\ \E ps \in [1..NumAssets -> plain], k \in 1..NumAssets, p \in any :
          LET qs == [ps EXCEPT ![k] = p]
          IN /\ assets_lyr = [i \in 1..NumAssets |-> LegacyAssetFeature(i, qs[i])]
             /\ work_orders_lyr = Numbered(LegacyWorkOrders(qs, NumAssets))
    /\ work_orders_tbl = <<>>
    /\ asset_dict = <<>>
    /\ op_work_order_dict = EmptyDict
    /\ pe_work_order_dict = EmptyDict
    /\ wo_table_dict = <<>>
    /\ work_orders_dict = EmptyDict
    /\ report = EmptyReport
    /\ calls = <<>>
    /\ paths = None
    /\ wo_attachments = {}
    /\ last = <<>>
    /\ eom = [created_date |-> None, next_due_date |-> NoDate, done |-> TRUE]
    /\ snapshot = NoSnapshot
    /\ list_lyr \in lists
    /\ workbook = NoWorkbook
    /\ mail = <<>>
    /\ run = 1
    /\ most_recent_wo_globalid = None

InitLegacy == StartLegacy(PlainProfiles, Profiles, {<<>>})

\* buildQueryDictionaries: the three queries and the three dictionaries.  A
\* failing connection or query raises into the handler of the main program.
BuildQueryDictionaries ==
    /\ pc = "build"
    /\ \E ok \in BOOLEAN :
          IF ok
          THEN /\ pc' = "loop"
               /\ asset_dict' = LegacyAssetDict(assets_lyr)
               /\ op_work_order_dict' = WorkOrderDict(work_orders_lyr, asset_dict', "OP")
               /\ pe_work_order_dict' = WorkOrderDict(work_orders_lyr, asset_dict', "PE")
               /\ snapshot' = [assets |-> assets_lyr, lyr |-> work_orders_lyr]
          ELSE /\ pc' = "failed"
               /\ UNCHANGED <<snapshot, asset_dict, op_work_order_dict, pe_work_order_dict>>
    /\ UNCHANGED <<today, idx, phase, assets_lyr, work_orders_lyr, work_orders_tbl,
                   wo_table_dict, work_orders_dict, report, calls, paths,
                   wo_attachments, last, eom, run,
                   most_recent_wo_globalid,
                   list_lyr, workbook, mail>>

\* What a loop step leaves behind.
Step(kind, a, st) == [kind |-> kind, key |-> a.HazardID, branch |-> st.branch,
                      raised |-> st.raised]

Commit(st, kind, a) ==
    /\ assets_lyr' = st.assets
    /\ work_orders_lyr' = st.lyr
    /\ report' = st.rep
    /\ calls' = st.calls
    /\ paths' = st.paths
    /\ wo_attachments' = st.att
    /\ last' = Append(last, Step(kind, a, st))

\* The OPERATOR half of the loop body for the asset at idx.
OperatorPass ==
    /\ pc = "loop" /\ phase = "OP" /\ idx <= Len(asset_dict)
    /\ \E f \in Faults :
          LET a == asset_dict[idx]
              st == InspectionPass(StepState, "OP", a, op_work_order_dict, today, f)
          IN /\ Commit(st, "OP", a)
             /\ pc' = IF st.raised THEN "failed" ELSE "loop"
             /\ phase' = IF st.raised THEN "OP" ELSE "PE"
    /\ UNCHANGED <<today, idx, work_orders_tbl, asset_dict, op_work_order_dict,
                   pe_work_order_dict, wo_table_dict, work_orders_dict, eom, run,
                   most_recent_wo_globalid,
                   snapshot, list_lyr, workbook, mail>>

\* The PE half of the loop body for the asset at idx.
PEPass ==
    /\ pc = "loop" /\ phase = "PE" /\ idx <= Len(asset_dict)
    /\ \E f \in Faults :
          LET a == asset_dict[idx]
              st == InspectionPass(StepState, "PE", a, pe_work_order_dict, today, f)
          IN /\ Commit(st, "PE", a)
             /\ pc' = IF st.raised THEN "failed" ELSE "loop"
             /\ idx' = IF st.raised THEN idx ELSE idx + 1
    /\ phase' = "OP"
    /\ UNCHANGED <<today, work_orders_tbl, asset_dict, op_work_order_dict,
                   pe_work_order_dict, wo_table_dict, work_orders_dict, eom, run,
                   most_recent_wo_globalid,
                   snapshot, list_lyr, workbook, mail>>

\* The loop is exhausted: updateServices returns the six dictionaries.
ReturnReports ==
    /\ pc = "loop" /\ idx > Len(asset_dict)
    /\ pc' = "returned"
    /\ UNCHANGED <<today, idx, phase, assets_lyr, work_orders_lyr, work_orders_tbl,
                   asset_dict, op_work_order_dict, pe_work_order_dict, wo_table_dict,
                   work_orders_dict, report, calls, paths, wo_attachments, last, eom, run,
                   most_recent_wo_globalid,
                   snapshot, list_lyr, workbook, mail>>

NextLegacy == BuildQueryDictionaries \/ OperatorPass \/ PEPass \/ ReturnReports

SpecLegacy == InitLegacy /\ [][NextLegacy]_vars

(***************************************************************************)
(* Unified model: calendar and interval utilities                          *)
(*   src/script/asset-workorder-updates-ljb.py                             *)
(***************************************************************************)
BaseYear == 2023        \* tick 0 is 1 January of this year, local midnight

IsLeap(y) == (y % 4 = 0 /\ y % 100 # 0) \/ y % 400 = 0

DaysInYear(y) == IF IsLeap(y) THEN 366 ELSE 365

DaysInMonth(y, mo) ==
    IF mo = 2 THEN (IF IsLeap(y) THEN 29 ELSE 28)
    ELSE IF mo \in {4, 6, 9, 11} THEN 30 ELSE 31

\* The calendar date of day number n >= 0, counted from 1 January of year y:
\* the fields year, month, day of a datetime.
RECURSIVE DateInMonth(_, _, _)
DateInMonth(y, mo, n) ==
    IF n < DaysInMonth(y, mo) THEN [year |-> y, month |-> mo, day |-> n + 1]
    ELSE DateInMonth(y, mo + 1, n - DaysInMonth(y, mo))

RECURSIVE DateInYear(_, _)
DateInYear(y, n) ==
    IF n < DaysInYear(y) THEN DateInMonth(y, 1, n) ELSE DateInYear(y + 1, n - DaysInYear(y))

Date(dt) == DateInYear(BaseYear, dt.day)

\* dt.replace(day = d)
replaceday(dt, d) == [day |-> dt.day - Date(dt).day + d, tod |-> dt.tod]

\* insp_interval_dict, in ticks: Daily 86400000, Shift Start 43200000,
\* Weekly 604800000, Monthly 2678400000, End of Month 2419200000 ms.
insp_interval_dict ==
    [i \in {"Daily", "Shift Start", "Weekly", "Monthly", "End of Month"} |->
        CASE i = "Daily" -> 2
          [] i = "Shift Start" -> 1
          [] i = "Weekly" -> 14
          [] i = "Monthly" -> 62
          [] i = "End of Month" -> 56]

\* Mutant: the correction steps back to the first day of the month reached.
EndOfMonth_FirstOfMonth(next_due_date) ==
    LET next_month == plusdays(replaceday(next_due_date, 28), 4)
    IN plusdays(next_month, 1 - Date(next_month).day)

\* next_month = next_due_date.replace(day=28) + timedelta(days=4)
\* next_due_date = next_month - timedelta(days=next_month.day)
EndOfMonth(next_due_date) ==
    LET next_month == plusdays(replaceday(next_due_date, 28), 4)
    IN plusdays(next_month, -Date(next_month).day)

\* Mutant: the interval is not added to the row's timestamp.
IntervalDue_NoInterval(created_date, insp_interval) == fromtimestamp(created_date)

\* datetime.fromtimestamp((created_date + insp_interval_dict[insp_interval])/1000)
IntervalDue(created_date, insp_interval) ==
    fromtimestamp(created_date + insp_interval_dict[insp_interval])

\* next_due_date of the completed branch for a named interval.
NamedNextDueDate(created_date, insp_interval) ==
    IF insp_interval = "End of Month"
    THEN EndOfMonth(IntervalDue(created_date, insp_interval))
    ELSE IntervalDue(created_date, insp_interval)

(***************************************************************************)
(* End-of-Month resolution on its own                                      *)
(***************************************************************************)
NumYears == 3           \* completion dates range over this many years

RECURSIVE TicksOfYears(_, _)
TicksOfYears(y, n) ==
    IF n = 0 THEN 0 ELSE DaysInYear(y) * TicksPerDay + TicksOfYears(y + 1, n - 1)

\* Completion timestamps such that the due date stays within the years.
CompletionTicks == 1..(TicksOfYears(BaseYear, NumYears) - 31 * TicksPerDay)

Idle ==
    /\ today = NoDate /\ pc = "eom" /\ idx = 0 /\ phase = "-"
    /\ assets_lyr = <<>> /\ work_orders_lyr = <<>> /\ work_orders_tbl = <<>>
    /\ asset_dict = <<>> /\ op_work_order_dict = EmptyDict
    /\ pe_work_order_dict = EmptyDict /\ wo_table_dict = <<>>
    /\ work_orders_dict = EmptyDict /\ report = EmptyDict /\ calls = <<>>
    /\ paths = None /\ wo_attachments = {} /\ last = <<>>
    /\ snapshot = NoSnapshot /\ list_lyr = <<>> /\ workbook = NoWorkbook /\ mail = <<>>
    /\ run = 1 /\ most_recent_wo_globalid = None

InitEndOfMonth ==
    /\ Idle
    /\ \E t \in CompletionTicks : eom = [created_date |-> t, next_due_date |-> NoDate,
                                       done |-> FALSE]

\* Lines 394-397 for insp_interval = 'End of Month'.
ResolveEndOfMonth ==
    /\ pc = "eom" /\ ~eom.done
    /\ eom' = [eom EXCEPT !.next_due_date = NamedNextDueDate(eom.created_date, "End of Month"),
                          !.done = TRUE]
    /\ UNCHANGED <<today, pc, idx, phase, assets_lyr, work_orders_lyr, work_orders_tbl,
                   asset_dict, op_work_order_dict, pe_work_order_dict, wo_table_dict,
                   work_orders_dict, report, calls, paths, wo_attachments, last,
                   snapshot, list_lyr, workbook, mail, run, most_recent_wo_globalid>>

NextEndOfMonth == ResolveEndOfMonth

SpecEndOfMonth == InitEndOfMonth /\ [][NextEndOfMonth]_vars

\* The day after dt is the first of a month.
IsLastDayOfMonth(dt) == Date(plusdays(dt, 1)).day = 1

\* C10: for every completion date the End-of-Month due date is the last
\* calendar day of a month (28, 29, 30 or 31 as month and leap year
\* require); a completion on 31 January gives 28 or 29 February.
C10_EndOfMonthIsLastDay ==
    eom.done =>
        LET c == Date(fromtimestamp(eom.created_date))
            n == Date(eom.next_due_date)
        IN /\ IsLastDayOfMonth(eom.next_due_date)
           /\ n.day = DaysInMonth(n.year, n.month)
           /\ n.day \in 28..31
           /\ eom.next_due_date.tod = fromtimestamp(eom.created_date).tod
           /\ (c.month = 1 /\ c.day = 31) =>
                 /\ n.year = c.year /\ n.month = 2
                 /\ n.day = IF IsLeap(c.year) THEN 29 ELSE 28

\* C10 witness: a completion on 31 January of a leap year resolved to 29
\* February.
C10_Witness ==
    /\ eom.done
    /\ Date(fromtimestamp(eom.created_date)) = [year |-> 2024, month |-> 1, day |-> 31]
    /\ Date(eom.next_due_date) = [year |-> 2024, month |-> 2, day |-> 29]

\* Months elapsed since year 0 up to the month of a datetime.
MonthIndex(dt) == Date(dt).year * 12 + Date(dt).month

\* C11: for every completion date the End-of-Month due date lies in the
\* calendar month after the month of the completion: not in the month of
\* the completion itself, not two months later.
C11_EndOfMonthInFollowingMonth ==
    (pc = "eom" /\ eom.done) =>
        MonthIndex(eom.next_due_date) = MonthIndex(fromtimestamp(eom.created_date)) + 1

(***************************************************************************)
(* Unified model: buildQueryDictionaries and updateServices                *)
(***************************************************************************)
LeadWindow == 60        \* days_till_due <= 60 and days_till_due >= 0

\* asset_name_dict: the asset layer of an EquipType
asset_name_dict ==
    [t \in {"Crane", "Extinguisher", "Eyewash", "Forklift"} |->
        CASE t = "Crane" -> 0 [] t = "Extinguisher" -> 1
          [] t = "Eyewash" -> 2 [] t = "Forklift" -> 3]

\* asset_dict: the assets with a NextInspection and an asset id, layer by
\* layer in the order of asset_list.
UnifiedAssetDict(feats) ==
    SelectSeq(feats, LAMBDA a : a.NextInspection # None /\ a.AssetID # None)

UnifiedKeys(ad) == {ad[i].AssetID : i \in 1..Len(ad)}

\* work_orders_dict: per asset id of asset_dict the last work-order point, in
\* layer order, whose RELAssetID is that id.
WorkOrdersDict(lyr, ad) ==
    LET match(k) == SelectSeq(lyr, LAMBDA w : w.RELAssetID = k)
        keys == {k \in UnifiedKeys(ad) : Len(match(k)) > 0}
    IN [k \in keys |-> match(k)[Len(match(k))]]

\* wo_table_dict_assetids
TableAssetIds(tbl) == {tbl[i].RELAssetID : i \in 1..Len(tbl)}

\* "Grab most recent work order table row for asset": the scan over
\* wo_table_dict from row i on, with latest_date and most_recent_wo_globalid
\* as the rows before i left them.
RECURSIVE MostRecentScan(_, _, _, _, _)
MostRecentScan(tbl, asset_id, i, latest_date, most_recent) ==
    IF i > Len(tbl) THEN most_recent
    ELSE LET v == tbl[i]
         IN IF v.RELAssetID # asset_id
            THEN MostRecentScan(tbl, asset_id, i + 1, latest_date, most_recent)
            ELSE IF v.LastInspect # None /\ v.LastInspect > latest_date
            THEN MostRecentScan(tbl, asset_id, i + 1, v.LastInspect, v.GlobalID)
            ELSE IF v.LastInspect = None
            THEN MostRecentScan(tbl, asset_id, i + 1, latest_date, v.GlobalID)
            ELSE MostRecentScan(tbl, asset_id, i + 1, latest_date, most_recent)

MostRecentGlobalId(tbl, asset_id) == MostRecentScan(tbl, asset_id, 1, 0, None)

\* work_orders_tbl.query("GlobalID = '..'").features
TableQuery(tbl, gid) == SelectSeq(tbl, LAMBDA r : r.GlobalID = gid)

\* Mutant: the raw day difference, without the + 1.
DaysTillDue_Raw(next_insp_date, now) == days(next_insp_date, now)

\* days_till_due = ((next_insp_date-today).days) + 1
DaysTillDue(next_insp_date, now) == days(next_insp_date, now) + 1

\* if days_till_due <= 60 and days_till_due >= 0 / elif days_till_due < 0 /
\* (elif days_till_due > 60)
Horizon(days_till_due) ==
    IF days_till_due <= LeadWindow /\ days_till_due >= 0 THEN "upcoming"
    ELSE IF days_till_due < 0 THEN "overdue"
    ELSE "later"

\* days_overdue = abs(days_till_due)
abs(n) == IF n < 0 THEN -n ELSE n

\* wb_upcoming[asset_id] = [...] and its two siblings
Note(st, bucket, k, row) ==
    [st EXCEPT !.rep = [st.rep EXCEPT ![bucket] = Put(st.rep[bucket], k, row)]]

\* Mutant: the edit of the work order point outside a try/except.
EditWorkOrderPoint_Uncaught(st, a, wo_oid, status, next, lastinsp, f) ==
    LET i == CHOOSE j \in 1..Len(st.lyr) : st.lyr[j].OBJECTID = wo_oid
        c(ok) == Call("update_wo", "point", a.AssetID, wo_oid, next, lastinsp, status, ok)
        edited == [st.lyr[i] EXCEPT !.NextInspection = next, !.LastInspect = lastinsp,
                                    !.AssignmentStatus = IF status = "" THEN @ ELSE status]
    IN IF f = "wo_update"
       THEN Raise([st EXCEPT !.calls = Append(@, c(FALSE))])
       ELSE [st EXCEPT !.lyr[i] = edited, !.calls = Append(@, c(TRUE))]

\* wo_edit; work_orders_lyr.edit_features(updates=[wo_edit]) in its
\* try/except.  status "" leaves AssignmentStatus out of the edit.
EditWorkOrderPoint(st, a, wo_oid, status, next, lastinsp, f) ==
    LET i == CHOOSE j \in 1..Len(st.lyr) : st.lyr[j].OBJECTID = wo_oid
        c(ok) == Call("update_wo", "point", a.AssetID, wo_oid, next, lastinsp, status, ok)
        edited == [st.lyr[i] EXCEPT !.NextInspection = next, !.LastInspect = lastinsp,
                                    !.AssignmentStatus = IF status = "" THEN @ ELSE status]
    IN IF f = "wo_update"
       THEN [st EXCEPT !.calls = Append(@, c(FALSE))]
       ELSE [st EXCEPT !.lyr[i] = edited, !.calls = Append(@, c(TRUE))]

\* Mutant: the asset update leaves LastInspect as it was.
EditAsset_KeepLastInspect(st, a, next, lastinsp, f) ==
    LET i == CHOOSE j \in 1..Len(st.assets) :
                /\ st.assets[j].OBJECTID = a.OBJECTID
                /\ st.assets[j].EquipType = a.EquipType
        c(ok) == Call("update_asset", a.EquipType, a.AssetID, a.OBJECTID, next,
                      lastinsp, "", ok)
    IN IF f = "asset_update"
       THEN [st EXCEPT !.calls = Append(@, c(FALSE))]
       ELSE [st EXCEPT !.assets[i].NextInspection = next,
                       !.calls = Append(@, c(TRUE))]

\* asset_edit; asset_lyr.edit_features(updates=[asset_edit]) in its
\* try/except.  The layer is the one of the asset's EquipType.
EditAsset(st, a, next, lastinsp, f) ==
    LET i == CHOOSE j \in 1..Len(st.assets) :
                /\ st.assets[j].OBJECTID = a.OBJECTID
                /\ st.assets[j].EquipType = a.EquipType
        c(ok) == Call("update_asset", a.EquipType, a.AssetID, a.OBJECTID, next,
                      lastinsp, "", ok)
    IN IF f = "asset_update"
       THEN [st EXCEPT !.calls = Append(@, c(FALSE))]
       ELSE [st EXCEPT !.assets[i].NextInspection = next,
                       !.assets[i].LastInspect = lastinsp,
                       !.calls = Append(@, c(TRUE))]

\* "add attachments from work order table to work order point"
CopyRowAttachments(st, a, row, wo_oid, f) ==
    LET download(ok) == Call("download", a.EquipType, a.AssetID, row.OBJECTID, None, None,
                             "", ok)
        add(ok) == Call("add_attachment", a.EquipType, a.AssetID, wo_oid, None, None, "", ok)
    IN IF f = "get_list" THEN Raise(st)
       ELSE IF ~row.attachments THEN st
       ELSE IF f = "download"
            THEN (IF st.paths = None
                  THEN Raise([st EXCEPT !.calls = Append(@, download(FALSE))])
                  ELSE [st EXCEPT !.calls = Append(@, download(FALSE))])
       ELSE IF f = "upload"
            THEN [st EXCEPT !.paths = row.OBJECTID, !.calls = Append(@, add(FALSE))]
       ELSE [st EXCEPT !.paths = row.OBJECTID,
                       !.att = @ \cup {[wo |-> wo_oid, asset |-> row.OBJECTID]},
                       !.calls = Append(@, add(TRUE))]

UpcomingRow(a) == Row(fromtimestamp(a.NextInspection), NoDate, None)

OverdueRow(a, days_till_due) == Row(fromtimestamp(a.NextInspection), NoDate, abs(days_till_due))

\* Due date set but no work order point exists (lines 301-317).
NoWorkOrderPoint(st, a, now) ==
    LET h == Horizon(DaysTillDue(fromtimestamp(a.NextInspection), now))
    IN IF h = "upcoming" THEN Note(Branch(st, "point-less upcoming"), "wb_upcoming", a.AssetID, UpcomingRow(a))
       ELSE IF h = "overdue"
       THEN Note(Branch(st, "point-less overdue"), "wb_overdue", a.AssetID,
                 OverdueRow(a, DaysTillDue(fromtimestamp(a.NextInspection), now)))
       ELSE Branch(st, "point-less later")

\* The work order point exists and the most recent table row is not newer
\* than the asset's last inspection (lines 339-388), or no table row exists
\* (lines 456-522): then, and only then, a due date beyond the window copies
\* the schedule fields onto the point.
ScheduleByDueDate(st, a, wo_oid, now, copies, f) ==
    LET dtd == DaysTillDue(fromtimestamp(a.NextInspection), now)
        h == Horizon(dtd)
    IN IF h = "upcoming"
       THEN EditWorkOrderPoint(Note(Branch(st, "upcoming"), "wb_upcoming", a.AssetID, UpcomingRow(a)),
                               a, wo_oid, "Assigned", a.NextInspection, a.LastInspect, f)
       ELSE IF h = "overdue"
       THEN EditWorkOrderPoint(Note(Branch(st, "overdue"), "wb_overdue", a.AssetID, OverdueRow(a, dtd)),
                               a, wo_oid, "Overdue", a.NextInspection, a.LastInspect, f)
       ELSE IF copies
       THEN EditWorkOrderPoint(Branch(st, "copy"), a, wo_oid, "", a.NextInspection,
                               a.LastInspect, f)
       ELSE Branch(st, "later")

\* Mutant: the Completed row is recorded only when the asset update succeeded.
CompletedRow_RowOnSuccess(st, a, most_recent_wo, wo_oid, f) ==
    LET created_date == most_recent_wo.created_date
        next_due_date == NamedNextDueDate(created_date, a.InspectInterval)
        completed_date == fromtimestamp(created_date)
        s1 == EditWorkOrderPoint(Branch(st, "completed"), a, wo_oid, "Completed",
                                 timestamp(next_due_date), created_date, f)
        s2 == EditAsset(s1, a, timestamp(next_due_date), created_date, f)
        s3 == IF f = "asset_update" THEN s2
              ELSE Note(s2, "wb_completed", a.AssetID,
                        Row(next_due_date, completed_date, None))
    IN IF a.InspectInterval \notin DOMAIN insp_interval_dict
       THEN Raise(Branch(st, "completed"))
       ELSE CopyRowAttachments(s3, a, most_recent_wo, wo_oid, f)

\* The most recent table row is newer than the asset's last inspection
\* (lines 390-454).  An interval that is no key of insp_interval_dict leaves
\* next_due_date = next_insp, an int: next_due_date.strftime raises.
CompletedRow(st, a, most_recent_wo, wo_oid, f) ==
    LET created_date == most_recent_wo.created_date
        next_due_date == NamedNextDueDate(created_date, a.InspectInterval)
        completed_date == fromtimestamp(created_date)
        s1 == EditWorkOrderPoint(Branch(st, "completed"), a, wo_oid, "Completed",
                                 timestamp(next_due_date), created_date, f)
        s2 == EditAsset(s1, a, timestamp(next_due_date), created_date, f)
        s3 == Note(s2, "wb_completed", a.AssetID, Row(next_due_date, completed_date, None))
    IN IF a.InspectInterval \notin DOMAIN insp_interval_dict
       THEN Raise(Branch(st, "completed"))
       ELSE CopyRowAttachments(s3, a, most_recent_wo, wo_oid, f)

\* Mutant: an asset with a Completed row is filed under Upcoming.
CategoryBucket_CompletedAsUpcoming(asset_type, bucket) ==
    CASE asset_name_dict[asset_type] = 0 ->
           (CASE bucket = "wb_overdue" -> "crane_overdue"
              [] OTHER -> "crane_upcoming")
      [] asset_name_dict[asset_type] = 1 ->
           (CASE bucket = "wb_overdue" -> "fire_overdue"
              [] OTHER -> "fire_upcoming")
      [] asset_name_dict[asset_type] = 2 ->
           (CASE bucket = "wb_overdue" -> "eyewash_overdue"
              [] OTHER -> "eyewash_upcoming")
      [] OTHER ->
           (CASE bucket = "wb_overdue" -> "forktruck_overdue"
              [] OTHER -> "forktruck_upcoming")

\* "Assign excel worksheets": the per-category dictionaries.
CategoryBucket(asset_type, bucket) ==
    CASE asset_name_dict[asset_type] = 0 ->
           (CASE bucket = "wb_overdue" -> "crane_overdue"
              [] bucket = "wb_completed" -> "crane_completed"
              [] OTHER -> "crane_upcoming")
      [] asset_name_dict[asset_type] = 1 ->
           (CASE bucket = "wb_overdue" -> "fire_overdue"
              [] bucket = "wb_completed" -> "fire_completed"
              [] OTHER -> "fire_upcoming")
      [] asset_name_dict[asset_type] = 2 ->
           (CASE bucket = "wb_overdue" -> "eyewash_overdue"
              [] bucket = "wb_completed" -> "eyewash_completed"
              [] OTHER -> "eyewash_upcoming")
      [] OTHER ->
           (CASE bucket = "wb_overdue" -> "forktruck_overdue"
              [] bucket = "wb_completed" -> "forktruck_completed"
              [] OTHER -> "forktruck_upcoming")

AssignWorksheets(st, a) ==
    LET k == a.AssetID
        from == IF k \in DOMAIN st.rep.wb_overdue THEN "wb_overdue"
                ELSE IF k \in DOMAIN st.rep.wb_completed THEN "wb_completed"
                ELSE IF k \in DOMAIN st.rep.wb_upcoming THEN "wb_upcoming"
                ELSE "none"
    IN IF st.raised \/ from = "none" THEN st
       ELSE Note(st, CategoryBucket(a.EquipType, from), k, st.rep[from][k])

\* The body of the loop of updateServices for asset a.
UnifiedBody(st, a, wod, tbl_dict, tbl, now, f) ==
    LET asset_id == a.AssetID
        wo_oid == wod[asset_id].OBJECTID
        gid == MostRecentGlobalId(tbl_dict, asset_id)
        found == TableQuery(tbl, gid)
        most_recent_wo == found[1]
        decided ==
            IF asset_id \notin DOMAIN wod THEN NoWorkOrderPoint(st, a, now)
            ELSE IF asset_id \in TableAssetIds(tbl_dict)
            THEN (IF f = "query" \/ Len(found) = 0 THEN Raise(Branch(st, "query"))
                  ELSE IF a.LastInspect # None /\ most_recent_wo.created_date <= a.LastInspect
                  THEN ScheduleByDueDate(st, a, wo_oid, now, FALSE, f)
                  ELSE CompletedRow(st, a, most_recent_wo, wo_oid, f))
            ELSE ScheduleByDueDate(st, a, wo_oid, now, TRUE, f)
    IN AssignWorksheets(decided, a)

(***************************************************************************)
(* Unified model: the remote store a run may find, and the run             *)
(***************************************************************************)
\* NextInspection, as offsets from the run in ticks: around the overdue
\* boundary, inside the window, and around its far end.
UnifiedDueOffsets ==
    {-5 * TicksPerDay - 1, -5 * TicksPerDay, -TicksPerDay, -1, 10 * TicksPerDay,
     (LeadWindow - 1) * TicksPerDay + 1, LeadWindow * TicksPerDay,
     (LeadWindow + 1) * TicksPerDay}

\* LastInspect of an asset that has been inspected before.
Inspected == TodayTick - 20 * TicksPerDay

\* created_date of a table row: older than, equal to and newer than that.
Older == Inspected - 2 * TicksPerDay
Recents == {TodayTick - 10 * TicksPerDay, TodayTick - 3 * TicksPerDay - 1}

TableRow(created, lastinsp) == [created_date |-> created, LastInspect |-> lastinsp]

OutdatedRows == {<<TableRow(Older, Older)>>, <<TableRow(Inspected, Inspected)>>}

RecentRows ==
    {<<TableRow(r, r)>> : r \in Recents}
    \cup {<<TableRow(r, None)>> : r \in Recents}
    \cup UNION {{<<TableRow(Older, Older), TableRow(r, r)>>,
                 <<TableRow(r, r), TableRow(Older, Older)>>,
                 <<TableRow(r, r), TableRow(Older, None)>>} :
                   r \in {TodayTick - 10 * TicksPerDay}}

Intervals == DOMAIN insp_interval_dict \cup {"30"}

UnifiedProfile(id, point, next, lastinsp, interval, rows, att) ==
    [id |-> id, point |-> point, next |-> next, lastinsp |-> lastinsp,
     interval |-> interval, rows |-> rows, att |-> att]

\* What every asset of the layers may be ...
PlainUnifiedProfiles ==
    {UnifiedProfile(TRUE, TRUE, TodayTick + 10 * TicksPerDay, Inspected, "Monthly", <<>>, FALSE),
     UnifiedProfile(TRUE, TRUE, TodayTick - 5 * TicksPerDay, None, "Weekly", <<>>, FALSE),
     UnifiedProfile(TRUE, FALSE, TodayTick + 10 * TicksPerDay, None, "Daily", <<>>, FALSE),
     UnifiedProfile(FALSE, FALSE, TodayTick + 10 * TicksPerDay, None, "Daily", <<>>, FALSE),
     UnifiedProfile(TRUE, TRUE, TodayTick + 10 * TicksPerDay, Inspected, "Monthly",
                    <<TableRow(TodayTick - 10 * TicksPerDay, TodayTick - 10 * TicksPerDay)>>,
                    TRUE)}

\* ... and what one asset of the layers may be.
UnifiedProfiles ==
    PlainUnifiedProfiles
    \cup {UnifiedProfile(TRUE, FALSE, TodayTick + o, Inspected, "Monthly", <<>>, FALSE) :
            o \in UnifiedDueOffsets}
    \cup {UnifiedProfile(TRUE, TRUE, TodayTick + o, l, "Monthly", <<>>, FALSE) :
            o \in UnifiedDueOffsets, l \in {None, Inspected}}
    \cup {UnifiedProfile(TRUE, TRUE, TodayTick + o, Inspected, "Monthly", rs, FALSE) :
            o \in UnifiedDueOffsets, rs \in OutdatedRows}
    \cup {UnifiedProfile(TRUE, TRUE, TodayTick + 10 * TicksPerDay, Inspected, iv, rs, a) :
            iv \in Intervals, rs \in RecentRows, a \in BOOLEAN}
    \cup {UnifiedProfile(TRUE, TRUE, TodayTick + 10 * TicksPerDay, None, "Monthly", rs, FALSE) :
            rs \in RecentRows}

AssetIDOf(i) == 200 + i

\* The layers of asset_list, in its order: crane, fire, eyewash, forktruck.
EquipTypes == DOMAIN asset_name_dict

InLayerOrder(ts) ==
    \A i, j \in DOMAIN ts : i < j => asset_name_dict[ts[i]] <= asset_name_dict[ts[j]]

UnifiedAssetFeature(i, t, p) ==
    [OBJECTID |-> i, AssetID |-> IF p.id THEN AssetIDOf(i) ELSE None, EquipType |-> t,
     NextInspection |-> p.next, LastInspect |-> p.lastinsp,
     InspectInterval |-> p.interval]

\* The permanent work order point of asset i, if it has one.
WorkOrderPointOf(i, p) ==
    IF p.point
    THEN <<[OBJECTID |-> None, RELAssetID |-> AssetIDOf(i), AssignmentStatus |-> "Assigned",
            NextInspection |-> None, LastInspect |-> None]>>
    ELSE <<>>

\* The rows of the work order table that reference asset i.
TableRowsOf(i, p) ==
    [j \in 1..Len(p.rows) |->
        [OBJECTID |-> None, GlobalID |-> None, RELAssetID |-> AssetIDOf(i),
         created_date |-> p.rows[j].created_date, LastInspect |-> p.rows[j].LastInspect,
         attachments |-> p.att]]

\* The features of a layer: those of its first n assets, asset by asset.
RECURSIVE Gather(_, _)
Gather(parts, n) == IF n = 0 THEN <<>> ELSE Gather(parts, n - 1) \o parts[n]

NumberedRows(tbl) ==
    [j \in 1..Len(tbl) |-> [tbl[j] EXCEPT !.OBJECTID = j, !.GlobalID = 300 + j]]

EmptyWorkbook ==
    [b \in {"wb_upcoming", "wb_completed", "wb_overdue",
            "crane_upcoming", "crane_completed", "crane_overdue",
            "fire_upcoming", "fire_completed", "fire_overdue",
            "eyewash_upcoming", "eyewash_completed", "eyewash_overdue",
            "forktruck_upcoming", "forktruck_completed", "forktruck_overdue"} |-> EmptyDict]

\* The start of a run on one of the days nows: every asset of the layers is
\* one of plain, one asset is one of any, and the list layer is one of lists.
StartUnified(nows, plain, any, lists) ==
    /\ \E t \in nows : today = fromtimestamp(t)
    /\ pc = "build"
    /\ idx = 1
    /\ phase = "-"
    /\ \E ps \in [1..NumAssets -> plain], k \in 1..NumAssets,
          p \in any, ts \in [1..NumAssets -> EquipTypes] :
          LET qs == [ps EXCEPT ![k] = p]
          IN /\ InLayerOrder(ts)
             /\ assets_lyr = [i \in 1..NumAssets |-> UnifiedAssetFeature(i, ts[i], qs[i])]
             /\ work_orders_lyr = Numbered(Gather([i \in 1..NumAssets |-> WorkOrderPointOf(i, qs[i])], NumAssets))
             /\ work_orders_tbl = NumberedRows(Gather([i \in 1..NumAssets |-> TableRowsOf(i, qs[i])], NumAssets))
    /\ asset_dict = <<>>
    /\ op_work_order_dict = EmptyDict
    /\ pe_work_order_dict = EmptyDict
    /\ wo_table_dict = <<>>
    /\ work_orders_dict = EmptyDict
    /\ report = EmptyWorkbook
    /\ calls = <<>>
    /\ paths = None
    /\ wo_attachments = {}
    /\ last = <<>>
    /\ eom = [created_date |-> None, next_due_date |-> NoDate, done |-> TRUE]
    /\ snapshot = NoSnapshot
    /\ list_lyr \in lists
    /\ workbook = NoWorkbook
    /\ mail = <<>>
    /\ run = 1
    /\ most_recent_wo_globalid = None

InitUnified == StartUnified({TodayTick}, PlainUnifiedProfiles, UnifiedProfiles, {<<>>})

\* buildQueryDictionaries: the six queries and the three dictionaries.
BuildUnifiedDictionaries ==
    /\ pc = "build"
    /\ \E ok \in BOOLEAN :
          IF ok
          THEN /\ pc' = "loop"
               /\ asset_dict' = UnifiedAssetDict(assets_lyr)
               /\ wo_table_dict' = work_orders_tbl
               /\ work_orders_dict' = WorkOrdersDict(work_orders_lyr, asset_dict')
               /\ snapshot' = [assets |-> assets_lyr, lyr |-> work_orders_lyr]
          ELSE /\ pc' = "failed"
               /\ UNCHANGED <<snapshot, asset_dict, wo_table_dict, work_orders_dict>>
    /\ UNCHANGED <<today, idx, phase, assets_lyr, work_orders_lyr, work_orders_tbl,
                   op_work_order_dict, pe_work_order_dict, report, calls, paths,
                   wo_attachments, last, eom, run,
                   most_recent_wo_globalid,
                   list_lyr, workbook, mail>>

\* One iteration of the loop of updateServices.
ReconcileAsset ==
    /\ pc = "loop" /\ idx <= Len(asset_dict)
    /\ \E f \in Faults \ {"insert"} :
          LET a == asset_dict[idx]
              st == UnifiedBody(StepState, a, work_orders_dict, wo_table_dict,
                                work_orders_tbl, today, f)
          IN /\ assets_lyr' = st.assets
             /\ work_orders_lyr' = st.lyr
             /\ report' = st.rep
             /\ calls' = st.calls
             /\ paths' = st.paths
             /\ wo_attachments' = st.att
             /\ last' = Append(last, [kind |-> a.EquipType, key |-> a.AssetID,
                                      branch |-> st.branch, raised |-> st.raised])
             /\ pc' = IF st.raised THEN "failed" ELSE "loop"
             /\ idx' = IF st.raised THEN idx ELSE idx + 1
    /\ UNCHANGED <<today, phase, work_orders_tbl, asset_dict, op_work_order_dict,
                   pe_work_order_dict, wo_table_dict, work_orders_dict, eom, run,
                   most_recent_wo_globalid,
                   snapshot, list_lyr, workbook, mail>>

\* The loop is exhausted: updateServices returns the fifteen dictionaries.
ReturnWorkbook ==
    /\ pc = "loop" /\ idx > Len(asset_dict)
    /\ pc' = "returned"
    /\ UNCHANGED <<today, idx, phase, assets_lyr, work_orders_lyr, work_orders_tbl,
                   asset_dict, op_work_order_dict, pe_work_order_dict, wo_table_dict,
                   work_orders_dict, report, calls, paths, wo_attachments, last, eom, run,
                   most_recent_wo_globalid,
                   snapshot, list_lyr, workbook, mail>>

NextUnified == BuildUnifiedDictionaries \/ ReconcileAsset \/ ReturnWorkbook

SpecUnified == InitUnified /\ [][NextUnified]_vars

(***************************************************************************)
(* Legacy model: properties                                                *)
(***************************************************************************)
LegacyDict(kind) == IF kind = "OP" THEN op_work_order_dict ELSE pe_work_order_dict

Kinds == {"OP", "PE"}

\* The half `kind` of the loop body has run for HazardID h.
Processed(kind, h) == \E i \in 1..Len(last) : last[i].kind = kind /\ last[i].key = h

Completed_(kind, h) ==
    \E i \in 1..Len(last) : last[i].kind = kind /\ last[i].key = h /\ ~last[i].raised

CallsOf(op, kind, h) ==
    {i \in 1..Len(calls) : calls[i].op = op /\ calls[i].kind = kind /\ calls[i].key = h}

InBucket(kind, bucket, h) == h \in DOMAIN report[ReportName(kind, bucket)]

BucketRow(kind, bucket, h) == report[ReportName(kind, bucket)][h]

\* Whole days from the run to an instant t (negative once t has passed).
WholeDaysAfterToday(t) == (t - timestamp(today)) \div TicksPerDay

\* An asset of the working set with a due date of the class and no work
\* order of the class in the dictionary.
Uncorrelated(kind, a) ==
    NextInspect(kind, a) # None /\ a.HazardID \notin DOMAIN LegacyDict(kind)

\* C1: an asset with a due date and no correlated work order gets a work
\* order and an Upcoming row only when the due date lies 0 to 40 (PE: 375)
\* whole days after today; an asset due later than that gets neither.
C1_CreateOnlyWithinLeadWindow ==
    \A kind \in Kinds : \A n \in 1..Len(asset_dict) :
        LET a == asset_dict[n]
            d == WholeDaysAfterToday(NextInspect(kind, a))
        IN Uncorrelated(kind, a) =>
             /\ (CallsOf("add_wo", kind, a.HazardID) # {}
                   \/ InBucket(kind, "upcoming", a.HazardID)) => (0 <= d /\ d <= Lead(kind))
             /\ d > Lead(kind) =>
                   /\ CallsOf("add_wo", kind, a.HazardID) = {}
                   /\ ~InBucket(kind, "upcoming", a.HazardID)
                   /\ ~InBucket(kind, "overdue", a.HazardID)
                   /\ ~InBucket(kind, "completed", a.HazardID)

\* C2: an asset whose due date is strictly before today and that has no
\* correlated work order never gets a work order inserted, in either pass.
C2_NoInsertForOverdueAsset ==
    \A kind \in Kinds : \A n \in 1..Len(asset_dict) :
        LET a == asset_dict[n]
        IN (Uncorrelated(kind, a) /\ NextInspect(kind, a) < timestamp(today))
              => CallsOf("add_wo", kind, a.HazardID) = {}

\* An asset of the working set whose pass `kind` is not skipped and whose
\* work order of the dictionary is not Completed and was due before today.
OpenAndOverdue(kind, a) ==
    /\ NextInspect(kind, a) # None
    /\ a.HazardID \in DOMAIN LegacyDict(kind)
    /\ LegacyDict(kind)[a.HazardID].AssignmentStatus # "Completed"
    /\ LegacyDict(kind)[a.HazardID].AssignmentDueDate < timestamp(today)

\* C5: for every asset whose correlated work order is not Completed and was
\* due strictly before today, the pass leaves one Overdue row with
\* days_overdue = whole days of (today - due date), issues (unless the remote
\* call itself raises) exactly one update, which sets that work order to
\* Overdue, and inserts no work order.
C5_OverdueWorkOrder ==
    \A kind \in Kinds : \A n \in 1..Len(asset_dict) :
        LET a == asset_dict[n]
            h == a.HazardID
            wo == LegacyDict(kind)[h]
            upd == CallsOf("update_wo", kind, h)
        IN (OpenAndOverdue(kind, a) /\ Processed(kind, h)) =>
             /\ InBucket(kind, "overdue", h)
             /\ BucketRow(kind, "overdue", h).days_overdue
                   = (timestamp(today) - wo.AssignmentDueDate) \div TicksPerDay
             /\ BucketRow(kind, "overdue", h).due = fromtimestamp(wo.AssignmentDueDate)
             /\ ~InBucket(kind, "upcoming", h)
             /\ ~InBucket(kind, "completed", h)
             /\ Cardinality(upd) <= 1
             /\ Completed_(kind, h) => Cardinality(upd) = 1
             /\ \A i \in upd : calls[i].oid = wo.OBJECTID /\ calls[i].status = "Overdue"
             /\ \A i \in upd : calls[i].ok =>
                                 work_orders_lyr[wo.OBJECTID].AssignmentStatus = "Overdue"
             /\ CallsOf("add_wo", kind, h) = {}

\* C5 witness: a work order several days overdue and one overdue by less
\* than a day have been marked.
C5_Witness ==
    \E n \in 1..Len(asset_dict) :
        LET a == asset_dict[n]
        IN /\ OpenAndOverdue("OP", a)
           /\ Completed_("OP", a.HazardID)
           /\ InBucket("OP", "overdue", a.HazardID)
           /\ BucketRow("OP", "overdue", a.HazardID).days_overdue = 5
           /\ CallsOf("update_wo", "OP", a.HazardID) # {}

\* An asset of the working set whose pass `kind` found a Completed work order
\* with a completion date.
FoundCompleted(kind, a) ==
    /\ NextInspect(kind, a) # None
    /\ a.HazardID \in DOMAIN LegacyDict(kind)
    /\ LegacyDict(kind)[a.HazardID].AssignmentStatus = "Completed"

\* C8 as claimed: the asset update sets the last-inspection field to the
\* work order's completion date and the next-inspection field to the
\* completion date plus the inspection frequency in days.
C8_NextFromCompletionDate ==
    \A kind \in Kinds : \A n \in 1..Len(asset_dict) :
        LET a == asset_dict[n]
            wo == LegacyDict(kind)[a.HazardID]
        IN FoundCompleted(kind, a) =>
             \A i \in CallsOf("update_asset", kind, a.HazardID) :
                 /\ calls[i].last = wo.CompleteDate
                 /\ calls[i].due = wo.CompleteDate + Frequency(kind, a) * TicksPerDay

\* C8, amended: whenever an asset's correlated work order is Completed, the
\* pass issues (unless a remote call raises first) one asset update; it sets
\* the last-inspection field to the work order's completion date and the
\* next-inspection field to the asset's previous due date plus the
\* inspection frequency in days, within the renewal window or not.
C8_NextFromPreviousDueDate ==
    \A kind \in Kinds : \A n \in 1..Len(asset_dict) :
        LET a == asset_dict[n]
            h == a.HazardID
            wo == LegacyDict(kind)[h]
            upd == CallsOf("update_asset", kind, h)
        IN /\ upd # {} => FoundCompleted(kind, a)
           /\ (FoundCompleted(kind, a) /\ Completed_(kind, h)) => Cardinality(upd) = 1
           /\ FoundCompleted(kind, a) =>
                \A i \in upd :
                    /\ calls[i].last = wo.CompleteDate
                    /\ calls[i].due = NextInspect(kind, a) + Frequency(kind, a) * TicksPerDay
                    /\ calls[i].oid = assets_lyr[calls[i].oid].OBJECTID
                    /\ assets_lyr[calls[i].oid].HazardID = h

\* C8 witness: one asset has had its Operator cycle rolled forward beyond the
\* renewal window (frequency 90 > 40) and its PE cycle within it (365 <= 375),
\* both completed before their due date.
C8_Witness ==
    \E n \in 1..Len(asset_dict) :
        LET a == asset_dict[n]
        IN /\ FoundCompleted("OP", a) /\ FoundCompleted("PE", a)
           /\ Frequency("OP", a) > LeadOp /\ Frequency("PE", a) <= LeadPE
           /\ LegacyDict("PE")[a.HazardID].CompleteDate # NextInspect("PE", a)
           /\ CallsOf("update_asset", "OP", a.HazardID) # {}
           /\ CallsOf("update_asset", "PE", a.HazardID) # {}
           /\ CallsOf("add_wo", "OP", a.HazardID) = {}
           /\ CallsOf("add_wo", "PE", a.HazardID) # {}

(***************************************************************************)
(* Unified model: properties                                               *)
(***************************************************************************)
\* The loop body has run to its end for asset id k.
Reconciled(k) == \E i \in 1..Len(last) : last[i].key = k /\ ~last[i].raised

\* The branch the loop body took for asset id k.
BranchTaken(k, b) == \E i \in 1..Len(last) : last[i].key = k /\ last[i].branch = b

PointUpdates(k) == CallsOf("update_wo", "point", k)

AssetUpdates(k) == {i \in 1..Len(calls) : calls[i].op = "update_asset" /\ calls[i].key = k}

Inserts == {i \in 1..Len(calls) : calls[i].op = "add_wo"}

HasPoint(k) == k \in DOMAIN work_orders_dict

HasTableRow(k) == k \in TableAssetIds(wo_table_dict)

InWorkbook(k) ==
    k \in DOMAIN report.wb_upcoming \cup DOMAIN report.wb_overdue
          \cup DOMAIN report.wb_completed

\* C3: for an asset with a work order point and no table row, a due date
\* exactly 60 days after today yields one Upcoming row and one update that
\* sets the point to Assigned; a due date exactly 61 days after today yields
\* no report row and one update that copies the schedule fields and leaves
\* the status alone.
C3_BoundaryAtSixtyDays ==
    \A n \in 1..Len(asset_dict) :
        LET a == asset_dict[n]
            k == a.AssetID
            upd == PointUpdates(k)
        IN (Reconciled(k) /\ HasPoint(k) /\ ~HasTableRow(k)) =>
             /\ a.NextInspection = timestamp(today) + 60 * TicksPerDay =>
                  /\ k \in DOMAIN report.wb_upcoming
                  /\ Cardinality(upd) = 1
                  /\ \A i \in upd : calls[i].status = "Assigned"
             /\ a.NextInspection = timestamp(today) + 61 * TicksPerDay =>
                  /\ ~InWorkbook(k)
                  /\ Cardinality(upd) = 1
                  /\ \A i \in upd : /\ calls[i].status = ""
                                    /\ calls[i].due = a.NextInspection
                                    /\ calls[i].last = a.LastInspect

\* C4: for an asset due 10 days after today that has no work order point,
\* the run leaves one Upcoming row for the asset and inserts exactly one work
\* order, whose due date is the asset's.
C4_UpcomingInsertsWorkOrder ==
    \A n \in 1..Len(asset_dict) :
        LET a == asset_dict[n]
            k == a.AssetID
            ins == {i \in Inserts : calls[i].key = k}
        IN (/\ Reconciled(k) /\ ~HasPoint(k)
            /\ a.NextInspection = timestamp(today) + 10 * TicksPerDay) =>
             /\ k \in DOMAIN report.wb_upcoming
             /\ Cardinality(ins) = 1
             /\ \A i \in ins : calls[i].due = a.NextInspection

\* C6: for an asset due exactly 5 days before today whose point is Assigned
\* and that has no newer completion row, the Overdue row carries
\* days_overdue = 5 and the point is updated to Overdue.
C6_FiveDaysOverdue ==
    \A n \in 1..Len(asset_dict) :
        LET a == asset_dict[n]
            k == a.AssetID
        IN (/\ Reconciled(k) /\ HasPoint(k) /\ ~BranchTaken(k, "completed")
            /\ work_orders_dict[k].AssignmentStatus = "Assigned"
            /\ a.NextInspection = timestamp(today) - 5 * TicksPerDay) =>
             /\ k \in DOMAIN report.wb_overdue
             /\ report.wb_overdue[k].days_overdue = 5
             /\ \E i \in PointUpdates(k) : calls[i].status = "Overdue"

\* C7: every asset due strictly before today and not treated as completed
\* gets an Overdue row, and the status Overdue when it has a point; it is
\* never in the Upcoming bucket and its point is never set to Assigned.
C7_PastDueIsOverdue ==
    \A n \in 1..Len(asset_dict) :
        LET a == asset_dict[n]
            k == a.AssetID
        IN (/\ Reconciled(k) /\ ~BranchTaken(k, "completed")
            /\ a.NextInspection < timestamp(today)) =>
             /\ k \in DOMAIN report.wb_overdue
             /\ HasPoint(k) => \E i \in PointUpdates(k) : calls[i].status = "Overdue"
             /\ k \notin DOMAIN report.wb_upcoming
             /\ \A i \in PointUpdates(k) : calls[i].status # "Assigned"

\* The duration of a named interval other than End of Month, in ticks.
Duration(interval) ==
    CASE interval = "Daily" -> TicksPerDay
      [] interval = "Shift Start" -> TicksPerDay \div 2
      [] interval = "Weekly" -> 7 * TicksPerDay
      [] interval = "Monthly" -> 31 * TicksPerDay

\* The table row the scan selects for asset id k.
SelectedRow(k) == TableQuery(work_orders_tbl, MostRecentGlobalId(wo_table_dict, k))[1]

\* C9: whenever the completed branch is taken for an asset whose interval is
\* Daily, Shift Start, Weekly or Monthly, the one asset update issued sets
\* LastInspect to created_date of the most recent table row and
\* NextInspection to created_date plus the interval's duration, wherever the
\* new due date lies relative to today.
C9_AssetUpdateFromCompletion ==
    \A n \in 1..Len(asset_dict) :
        LET a == asset_dict[n]
            k == a.AssetID
            upd == AssetUpdates(k)
        IN (/\ BranchTaken(k, "completed")
            /\ a.InspectInterval \in {"Daily", "Shift Start", "Weekly", "Monthly"}) =>
             /\ Cardinality(upd) = 1
             /\ \A i \in upd :
                  /\ calls[i].oid = a.OBJECTID
                  /\ calls[i].last = SelectedRow(k).created_date
                  /\ calls[i].due = SelectedRow(k).created_date + Duration(a.InspectInterval)
                  /\ calls[i].ok =>
                       \E j \in 1..Len(assets_lyr) :
                          /\ assets_lyr[j].AssetID = k
                          /\ assets_lyr[j].LastInspect = calls[i].last
                          /\ assets_lyr[j].NextInspection = calls[i].due

\* C9 witness: the run has returned after a completion of a Shift Start
\* asset whose new due date is already past, and the asset layer holds the
\* new dates.
C9_Witness ==
    /\ pc = "returned"
    /\ \E n \in 1..Len(asset_dict) :
          LET a == asset_dict[n]
              k == a.AssetID
          IN /\ BranchTaken(k, "completed")
             /\ a.InspectInterval = "Shift Start"
             /\ \E i \in AssetUpdates(k) :
                   /\ calls[i].ok
                   /\ calls[i].due < timestamp(today)
                   /\ calls[i].due = calls[i].last + 1
                   /\ calls[i].last # a.LastInspect
             /\ \E j \in 1..Len(assets_lyr) :
                   /\ assets_lyr[j].AssetID = k
                   /\ assets_lyr[j].NextInspection = SelectedRow(k).created_date + 1

\* C12: when the completed branch is taken for a Monthly asset and the
\* completion plus the interval falls inside the 60-day window after today
\* (45 days in the scenario; a stored completion lies in the past, so that
\* the distances that occur are below 31 days), the run leaves a Completed
\* row and an Upcoming row for the asset and inserts, or updates to Assigned,
\* a work order whose due date is the new due date.
C12_CompletedMonthlyRenews ==
    \A n \in 1..Len(asset_dict) :
        LET a == asset_dict[n]
            k == a.AssetID
            next_due == SelectedRow(k).created_date + 31 * TicksPerDay
            ahead == (next_due - timestamp(today)) \div TicksPerDay
        IN (/\ Reconciled(k) /\ BranchTaken(k, "completed")
            /\ a.InspectInterval = "Monthly"
            /\ ahead \in 0..LeadWindow) =>
             /\ k \in DOMAIN report.wb_completed
             /\ k \in DOMAIN report.wb_upcoming
             /\ \E i \in 1..Len(calls) :
                   /\ calls[i].key = k
                   /\ calls[i].op \in {"add_wo", "update_wo"}
                   /\ calls[i].status = "Assigned"
                   /\ calls[i].due = next_due

(***************************************************************************)
(* Legacy model: renewal and failures                                      *)
(***************************************************************************)
\* C13: after a Completed work order has been processed, a work order for
\* the new cycle is inserted and an Upcoming row recorded if and only if the
\* new due date lies 0 to 40 (PE: 375) whole days after today.
C13_RenewWithinLeadOfToday ==
    \A kind \in Kinds : \A n \in 1..Len(asset_dict) :
        LET a == asset_dict[n]
            h == a.HazardID
            new_due == NextInspect(kind, a) + Frequency(kind, a) * TicksPerDay
            renewed == /\ CallsOf("add_wo", kind, h) # {}
                       /\ InBucket(kind, "upcoming", h)
        IN (FoundCompleted(kind, a) /\ Completed_(kind, h)) =>
             (renewed <=> WholeDaysAfterToday(new_due) \in 0..Lead(kind))

\* The external writes of the loop that failed.
FailedWrites(ops) == {i \in 1..Len(calls) : calls[i].op \in ops /\ ~calls[i].ok}

\* C14: when a work order insert, an asset update or a status update to
\* Overdue fails for an asset, the half of the loop body that issued it runs
\* to its end, so that the loop goes on to the assets after it.
C14_WriteFailureHandledInLoop ==
    \A i \in FailedWrites({"add_wo", "update_asset", "update_wo"}) :
        Completed_(calls[i].kind, calls[i].key)

\* C16: when the download of an asset's attachments or the upload of one of
\* them fails, the half of the loop body that issued it runs to its end, and
\* the work order inserted before the copy is in the work order layer.
C16_AttachmentFailureNeverAborts ==
    \A i \in FailedWrites({"download", "add_attachment"}) :
        /\ Completed_(calls[i].kind, calls[i].key)
        /\ \A j \in 1..(i - 1) :
              (calls[j].op = "add_wo" /\ calls[j].key = calls[i].key /\ calls[j].ok) =>
                 \E n \in 1..Len(work_orders_lyr) :
                    /\ work_orders_lyr[n].HazardID = calls[j].key
                    /\ work_orders_lyr[n].AssignmentDueDate = calls[j].due

(***************************************************************************)
(* Unified model: failures                                                 *)
(***************************************************************************)
\* The report row the branch taken for asset id k decides, if any, is in the
\* overall dictionary and in the dictionary of the asset's category.
DecidedRowEmitted(a) ==
    LET k == a.AssetID
        emitted(bucket) ==
            /\ k \in DOMAIN report[bucket]
            /\ k \in DOMAIN report[CategoryBucket(a.EquipType, bucket)]
    IN /\ BranchTaken(k, "upcoming") => emitted("wb_upcoming")
       /\ BranchTaken(k, "overdue") => emitted("wb_overdue")
       /\ BranchTaken(k, "completed") => emitted("wb_completed")

\* C15: when the update of a work order point or of an asset fails, the loop
\* body of that asset runs to its end all the same: the report row decided
\* for the asset is in the dictionaries, a failed point update of the
\* completed branch is followed by the asset update, and the loop goes on to
\* the assets after it.
C15_FailedUpdateIsSkipped ==
    \A n \in 1..Len(asset_dict) :
        LET a == asset_dict[n]
            k == a.AssetID
            failed == {i \in FailedWrites({"update_wo", "update_asset"}) : calls[i].key = k}
        IN failed # {} =>
             /\ Reconciled(k)
             /\ DecidedRowEmitted(a)
             /\ \A i \in failed :
                  (calls[i].op = "update_wo" /\ BranchTaken(k, "completed")) =>
                      \E j \in AssetUpdates(k) : j > i /\ calls[j].ok
             /\ pc # "failed" => idx > n

\* C15 witness: the run has returned; the point update of its first asset
\* failed and the asset update of its second asset failed, and both assets
\* have their report rows.
C15_Witness ==
    /\ pc = "returned"
    /\ Len(asset_dict) = 2
    /\ \E i \in FailedWrites({"update_wo"}) : calls[i].key = asset_dict[1].AssetID
    /\ \E i \in FailedWrites({"update_asset"}) : calls[i].key = asset_dict[2].AssetID
    /\ InWorkbook(asset_dict[1].AssetID)
    /\ asset_dict[2].AssetID \in DOMAIN report.wb_completed

(***************************************************************************)
(* Both models: the working set and the report as a function of the        *)
(* snapshot                                                                *)
(***************************************************************************)
\* A run of either script: the legacy script where the loop has its two
\* halves, the unified script otherwise.
Legacy == phase \in {"OP", "PE"}

InitBoth == InitLegacy \/ InitUnified

NextBoth == (Legacy /\ NextLegacy) \/ (~Legacy /\ NextUnified)

SpecBoth == InitBoth /\ [][NextBoth]_vars

\* The state a run of updateServices starts from when the remote layers are
\* as the snapshot has them.
SnapshotState ==
    [assets |-> snapshot.assets, lyr |-> snapshot.lyr,
     rep |-> IF Legacy THEN EmptyReport ELSE EmptyWorkbook,
     calls |-> <<>>, paths |-> None, att |-> {}, raised |-> FALSE, branch |-> "skip"]

\* updateServices from asset n of asset_dict on, every remote call succeeding.
RECURSIVE Replay(_, _)
Replay(st, n) ==
    IF n > Len(asset_dict) \/ st.raised THEN st
    ELSE LET a == asset_dict[n]
             op == InspectionPass(st, "OP", a, op_work_order_dict, today, "none")
         IN IF Legacy
            THEN Replay(IF op.raised THEN op
                        ELSE InspectionPass(op, "PE", a, pe_work_order_dict, today, "none"),
                        n + 1)
            ELSE Replay(UnifiedBody(st, a, work_orders_dict, wo_table_dict,
                                    work_orders_tbl, today, "none"),
                        n + 1)

\* The identifier and the due dates of an asset feature of either model.
IdOf(a) == IF Legacy THEN a.HazardID ELSE a.AssetID

HasDueDate(a) ==
    IF Legacy THEN a.NextOpInspect # None \/ a.NextPEInspect # None
    ELSE a.NextInspection # None

ReportKeys == UNION {DOMAIN report[b] : b \in DOMAIN report}

\* C19: the working set holds only assets with a due date and an identifier,
\* and holds every such asset; for an asset with a due date and a null
\* identifier no report row is recorded, no request is issued, no work order
\* is inserted and its feature stays as it was.
C19_WorkingSetNeedsDueDateAndId ==
    pc \in {"loop", "returned", "failed"} =>
        /\ \A n \in 1..Len(asset_dict) :
              IdOf(asset_dict[n]) # None /\ HasDueDate(asset_dict[n])
        /\ \A j \in 1..Len(snapshot.assets) :
              LET a == snapshot.assets[j]
              IN /\ (\E n \in 1..Len(asset_dict) : asset_dict[n] = a)
                       <=> (IdOf(a) # None /\ HasDueDate(a))
                 /\ IdOf(a) = None => assets_lyr[j] = a
        /\ None \notin ReportKeys
        /\ \A i \in 1..Len(calls) : calls[i].key # None
        /\ \A i \in 1..Len(last) : last[i].key # None
        /\ Legacy => \A i \in 1..Len(work_orders_lyr) : work_orders_lyr[i].HazardID # None

\* C19 witness: a legacy run has returned; the layer held an asset with a due
\* date and no HazardID next to an asset that got its work order and row.
C19_Witness ==
    /\ Legacy /\ pc = "returned"
    /\ \E j \in 1..Len(snapshot.assets) :
          snapshot.assets[j].HazardID = None /\ snapshot.assets[j].NextOpInspect # None
    /\ Len(asset_dict) = 1
    /\ CallsOf("add_wo", "OP", asset_dict[1].HazardID) # {}
    /\ InBucket("OP", "upcoming", asset_dict[1].HazardID)

\* C20: the dictionaries a run returns are those of a run over the same
\* snapshot and the same today in which every remote call succeeds, whatever
\* calls failed in the run itself; so any two runs over a snapshot that
\* return, return the same dictionaries.
C20_ReportIsFunctionOfSnapshot ==
    pc = "returned" =>
        /\ ~Replay(SnapshotState, 1).raised
        /\ Replay(SnapshotState, 1).rep = report

\* C20 witness: a unified run has returned with rows in its dictionaries
\* although one of its updates failed and another went through.
C20_Witness ==
    /\ ~Legacy /\ pc = "returned"
    /\ report.wb_completed # EmptyDict
    /\ report.wb_overdue # EmptyDict
    /\ FailedWrites({"update_wo", "update_asset"}) # {}
    /\ \E i \in 1..Len(calls) : calls[i].op = "update_asset" /\ calls[i].ok
    /\ assets_lyr # snapshot.assets

(***************************************************************************)
(* The main programs: what follows updateServices, and the handler         *)
(***************************************************************************)
\* datetime.weekday(): Monday is 0; 1 January of year 1 is a Monday.
Weekday(dt) ==
    LET y == BaseYear - 1
    IN (365 * y + y \div 4 - y \div 100 + y \div 400 + dt.day) % 7

Monday == 0

\* The fixed position of every row of the list layer, in hundredths.
ListX == -945343393     \* x = -9453433.93
ListY == 506741483      \* y = 5067414.83

\* A row of the list layer: a copy of a work order under an OBJECTID of the
\* list layer's own.
ListRow(wo, oid) == [OBJECTID |-> oid, wo |-> wo, x |-> ListX, y |-> ListY]

\* A row the list layer holds from the run before.
OldListRow == ListRow(WorkOrder(HazardIDOf(1), "OP", TodayTick - 30 * TicksPerDay,
                                "Completed", TodayTick - 31 * TicksPerDay), 1)

\* The list layer numbers a new row after the rows it has ever held.
RECURSIVE MaxOid(_)
MaxOid(lyr) ==
    IF lyr = <<>> THEN 0
    ELSE LET m == MaxOid(Tail(lyr))
         IN IF Head(lyr).OBJECTID > m THEN Head(lyr).OBJECTID ELSE m

\* A request to the list layer.
ListCall(op, ok) == Call(op, "list", None, None, None, None, "", ok)

\* A step of the main program, as the run leaves it behind.
MainStep(name, raised) ==
    [kind |-> name, key |-> None, branch |-> "main", raised |-> raised]

\* The parameters of sendemail that have no default.
SendemailParameters == {"eto", "efrom", "subject", "message", "email_cc"}

\* sendemail called with the arguments args: a call that leaves out a
\* parameter without default raises TypeError before the body runs; otherwise
\* the message goes to the SMTP host, which accepts it (ok) or raises.
sendemail(box, args, subject, att, ok) ==
    IF ~(SendemailParameters \subseteq args) THEN [mail |-> box, raised |-> TRUE]
    ELSE IF ok THEN [mail |-> Append(box, [subject |-> subject, att |-> att]),
                     raised |-> FALSE]
    ELSE [mail |-> box, raised |-> TRUE]

\* moveToListService with one of four outcomes: the connection or a query
\* raises, the deletion raises, the insertion raises, or nothing raises.  The
\* deletion is requested when deletes holds.
MoveToList(outcomes, deletes) ==
    /\ pc = "returned"
    /\ \E o \in outcomes :
          /\ list_lyr' = CASE o \in {"connect", "delete"} -> list_lyr
                           [] o = "add" -> IF deletes THEN <<>> ELSE list_lyr
                           [] OTHER -> (IF deletes THEN <<>> ELSE list_lyr)
                                       \o [j \in 1..Len(work_orders_lyr) |->
                                              ListRow(work_orders_lyr[j],
                                                      MaxOid(list_lyr) + j)]
          /\ calls' = calls
                      \o (IF o # "connect" /\ deletes
                          THEN <<ListCall("delete", o # "delete")>> ELSE <<>>)
                      \o (IF o \in {"add", "ok"}
                          THEN <<ListCall("add", o = "ok")>> ELSE <<>>)
          /\ pc' = IF o = "ok" THEN "workbook" ELSE "failed"
          /\ last' = Append(last, MainStep("list", o # "ok"))
    /\ UNCHANGED <<today, idx, phase, assets_lyr, work_orders_lyr, work_orders_tbl,
                   asset_dict, op_work_order_dict, pe_work_order_dict, wo_table_dict,
                   work_orders_dict, report, paths, wo_attachments, eom, run,
                   most_recent_wo_globalid,
                   snapshot, workbook, mail>>

\* Mutant: the rows of the run before are not deleted.
MoveToListService_NoDelete ==
    Legacy /\ MoveToList({"ok", "connect", "add"}, FALSE)

\* Legacy: the deletion is requested whatever the list layer holds.
MoveToListService ==
    Legacy /\ MoveToList({"ok", "connect", "delete", "add"}, TRUE)

\* Unified: the deletion is requested only for a list layer that holds rows.
MoveToListServiceUnified ==
    /\ ~Legacy
    /\ MoveToList({"ok", "connect", "add"}
                  \cup (IF Len(list_lyr) > 0 THEN {"delete"} ELSE {}),
                  Len(list_lyr) > 0)

\* createWorkbook, addWorksheet and wb.close(): the workbook gets the
\* dictionaries updateServices returned, one sheet each.
CreateWorkbook ==
    /\ pc = "workbook"
    /\ \E o \in {"ok", "create", "write"} :
          /\ workbook' = CASE o = "create" -> workbook
                           [] o = "write" -> [at |-> "open", sheets |-> EmptyDict]
                           [] OTHER -> [at |-> "data", sheets |-> report]
          /\ pc' = IF o = "ok" THEN "email" ELSE "failed"
          /\ last' = Append(last, MainStep("workbook", o # "ok"))
    /\ UNCHANGED <<today, idx, phase, assets_lyr, work_orders_lyr, work_orders_tbl,
                   asset_dict, op_work_order_dict, pe_work_order_dict, wo_table_dict,
                   work_orders_dict, report, calls, paths, wo_attachments, eom, run,
                   most_recent_wo_globalid,
                   snapshot, list_lyr, mail>>

\* Legacy: the report is sent on every run.
SendReport ==
    /\ Legacy /\ pc = "email"
    /\ \E ok \in BOOLEAN :
          LET r == sendemail(mail, SendemailParameters, "report", workbook, ok)
          IN /\ mail' = r.mail
             /\ pc' = IF r.raised THEN "failed" ELSE "cleanup"
             /\ last' = Append(last, MainStep("report", r.raised))
    /\ UNCHANGED <<today, idx, phase, assets_lyr, work_orders_lyr, work_orders_tbl,
                   asset_dict, op_work_order_dict, pe_work_order_dict, wo_table_dict,
                   work_orders_dict, report, calls, paths, wo_attachments, eom, run,
                   most_recent_wo_globalid,
                   snapshot, list_lyr, workbook>>

\* Mutant: the report is sent whatever the weekday.
SendReportOnMonday_EveryDay ==
    /\ ~Legacy /\ pc = "email"
    /\ \E ok \in BOOLEAN :
          LET r == sendemail(mail, SendemailParameters, "report", workbook, ok)
          IN /\ mail' = r.mail
             /\ pc' = IF r.raised THEN "failed" ELSE "cleanup"
             /\ last' = Append(last, MainStep("report", r.raised))
    /\ UNCHANGED <<today, idx, phase, assets_lyr, work_orders_lyr, work_orders_tbl,
                   asset_dict, op_work_order_dict, pe_work_order_dict, wo_table_dict,
                   work_orders_dict, report, calls, paths, wo_attachments, eom, run,
                   most_recent_wo_globalid,
                   snapshot, list_lyr, workbook>>

\* Unified: the report is sent when today.weekday() == 0.
SendReportOnMonday ==
    /\ ~Legacy /\ pc = "email"
    /\ IF Weekday(today) = Monday
       THEN \E ok \in BOOLEAN :
               LET r == sendemail(mail, SendemailParameters, "report", workbook, ok)
               IN /\ mail' = r.mail
                  /\ pc' = IF r.raised THEN "failed" ELSE "cleanup"
                  /\ last' = Append(last, MainStep("report", r.raised))
       ELSE /\ pc' = "cleanup"
            /\ UNCHANGED <<mail, last>>
    /\ UNCHANGED <<today, idx, phase, assets_lyr, work_orders_lyr, work_orders_tbl,
                   asset_dict, op_work_order_dict, pe_work_order_dict, wo_table_dict,
                   work_orders_dict, report, calls, paths, wo_attachments, eom, run,
                   most_recent_wo_globalid,
                   snapshot, list_lyr, workbook>>

\* cleanUp: the workbook is moved to the archive folder, and the oldest
\* workbook of a full archive folder removed.
CleanUp ==
    /\ pc = "cleanup"
    /\ \E o \in {"ok", "move", "remove"} :
          /\ workbook' = IF o = "move" THEN workbook
                         ELSE [workbook EXCEPT !.at = "archived"]
          /\ pc' = IF o = "ok" THEN "done" ELSE "failed"
          /\ last' = Append(last, MainStep("cleanup", o # "ok"))
    /\ UNCHANGED <<today, idx, phase, assets_lyr, work_orders_lyr, work_orders_tbl,
                   asset_dict, op_work_order_dict, pe_work_order_dict, wo_table_dict,
                   work_orders_dict, report, calls, paths, wo_attachments, eom, run,
                   most_recent_wo_globalid,
                   snapshot, list_lyr, mail>>

\* Legacy handler: sendemail(eto=, efrom=, subject=, message=, att=).
NotifyFailure ==
    /\ Legacy /\ pc = "failed"
    /\ \E ok \in BOOLEAN :
          LET r == sendemail(mail, {"eto", "efrom", "subject", "message", "att"},
                             "error", "logfile", ok)
          IN /\ mail' = r.mail
             /\ pc' = IF r.raised THEN "crashed" ELSE "quit"
             /\ last' = Append(last, MainStep("alert", r.raised))
    /\ UNCHANGED <<today, idx, phase, assets_lyr, work_orders_lyr, work_orders_tbl,
                   asset_dict, op_work_order_dict, pe_work_order_dict, wo_table_dict,
                   work_orders_dict, report, calls, paths, wo_attachments, eom, run,
                   most_recent_wo_globalid,
                   snapshot, list_lyr, workbook>>

\* Unified handler: sendemail(error_to, error_from, error_sub, error_msg, '',
\* att = logfile) in a try/except of its own.
AlertOwners ==
    /\ ~Legacy /\ pc = "failed"
    /\ \E ok \in BOOLEAN :
          LET r == sendemail(mail, SendemailParameters \cup {"att"},
                             "error", "logfile", ok)
          IN /\ mail' = r.mail
             /\ pc' = "quit"
             /\ last' = Append(last, MainStep("alert", r.raised))
    /\ UNCHANGED <<today, idx, phase, assets_lyr, work_orders_lyr, work_orders_tbl,
                   asset_dict, op_work_order_dict, pe_work_order_dict, wo_table_dict,
                   work_orders_dict, report, calls, paths, wo_attachments, eom, run,
                   most_recent_wo_globalid,
                   snapshot, list_lyr, workbook>>

\* The list layer at the start of a run: empty, or with a row.
Lists == {<<>>, <<OldListRow>>}

InitLegacyRun == StartLegacy(PlainProfiles, PlainProfiles, Lists)

NextLegacyRun ==
    \/ NextLegacy
    \/ MoveToListService
    \/ CreateWorkbook
    \/ SendReport
    \/ CleanUp
    \/ NotifyFailure

SpecLegacyRun == InitLegacyRun /\ [][NextLegacyRun]_vars

NumRunDays == 7         \* consecutive days on which a run may happen

RunDays == {TodayTick + d * TicksPerDay : d \in 0..(NumRunDays - 1)}

InitUnifiedRun == StartUnified(RunDays, PlainUnifiedProfiles, PlainUnifiedProfiles, Lists)

NextUnifiedRun ==
    \/ NextUnified
    \/ MoveToListServiceUnified
    \/ CreateWorkbook
    \/ SendReportOnMonday
    \/ CleanUp
    \/ AlertOwners

SpecUnifiedRun == InitUnifiedRun /\ [][NextUnifiedRun]_vars

\* What the run has left behind of the step name.
Steps(name) == {i \in 1..Len(last) : last[i].kind = name}

Attempted(name) == Steps(name) # {}

Delivered(subject, att) ==
    \E i \in 1..Len(mail) : mail[i].subject = subject /\ mail[i].att = att

\* The run is over, with or without success.
Ended == pc \in {"done", "quit", "crashed"}

FailedRun == pc \in {"quit", "crashed"}

\* C17: a run that failed does not end before the failure notification with
\* the log file went to the mail transport.
C17_FailedRunSendsNotification ==
    FailedRun => Attempted("alert") /\ (\A i \in Steps("alert") : ~last[i].raised)
                 /\ Delivered("error", "logfile")

\* Every step of the run before the report email succeeded: the queries, the
\* loop, the list layer, the workbook.
EarlierStepsSucceeded ==
    /\ snapshot # NoSnapshot
    /\ \A i \in 1..Len(last) : last[i].branch # "main" => ~last[i].raised
    /\ Attempted("list") /\ Attempted("workbook")
    /\ \A i \in Steps("list") \cup Steps("workbook") : ~last[i].raised

\* C18: the unified run hands the report email, with the workbook of the
\* run's dictionaries attached, to sendemail if and only if every earlier
\* step succeeded and today is a Monday; a run that failed hands the alert to
\* sendemail whatever the weekday, and a run that succeeded sends no alert.
C18_ReportOnMondayAlertAlways ==
    /\ Attempted("report") => EarlierStepsSucceeded /\ Weekday(today) = Monday
    /\ pc \in {"cleanup", "done", "quit"} /\ EarlierStepsSucceeded /\ Weekday(today) = Monday
          => Attempted("report")
    /\ \A i \in 1..Len(mail) :
          mail[i].subject = "report" =>
              /\ Attempted("report")
              /\ mail[i].att = [at |-> "data", sheets |-> report]
    /\ pc = "quit" => Attempted("alert")
    /\ Attempted("alert") =>
          /\ pc = "quit"
          /\ \/ snapshot = NoSnapshot
             \/ \E i \in 1..Len(last) : last[i].kind # "alert" /\ last[i].raised
    /\ pc = "done" => ~Attempted("alert") /\ EarlierStepsSucceeded

\* C18 witnesses: on a Monday the report went out with a workbook that has
\* rows, the clean-up failed after it and the alert went out as well ...
C18_Witness ==
    /\ ~Legacy /\ pc = "quit" /\ Weekday(today) = Monday
    /\ Delivered("report", [at |-> "data", sheets |-> report])
    /\ report.wb_upcoming # EmptyDict
    /\ Delivered("error", "logfile")

\* ... and on a Thursday a run whose loop raised sent the alert and no report.
C18_WitnessThursday ==
    /\ ~Legacy /\ pc = "quit" /\ Weekday(today) = 3
    /\ ~EarlierStepsSucceeded /\ snapshot # NoSnapshot
    /\ ~Attempted("report")
    /\ Delivered("error", "logfile")

(***************************************************************************)
(* Both main programs: deletions and the list layer                        *)
(***************************************************************************)
InitBothRun == InitLegacyRun \/ InitUnifiedRun

NextBothRun == (Legacy /\ NextLegacyRun) \/ (~Legacy /\ NextUnifiedRun)

SpecBothRun == InitBothRun /\ [][NextBothRun]_vars

\* The OBJECTIDs of the features of a layer, in the layer's order.
Oids(lyr) == [j \in 1..Len(lyr) |-> lyr[j].OBJECTID]

\* Every feature of lyr is still a feature of lyr2, at its place.
Kept(lyr, lyr2) ==
    /\ Len(lyr2) >= Len(lyr)
    /\ \A j \in 1..Len(lyr) : lyr2[j].OBJECTID = lyr[j].OBJECTID

\* C21: no step of a run removes a feature of the asset layers, of the
\* work-order layer or of the work-order table; the only delete requests are
\* those of moveToListService to the list layer, and rows leave the list
\* layer only in moveToListService.
C21_OnlyTheListLayerLosesRows ==
    /\ [](\A i \in 1..Len(calls) : calls[i].op = "delete" => calls[i].kind = "list")
    /\ [][/\ Oids(assets_lyr') = Oids(assets_lyr)
          /\ Kept(work_orders_lyr, work_orders_lyr')
          /\ work_orders_tbl' = work_orders_tbl
          /\ \A a \in wo_attachments : a \in wo_attachments'
          /\ ~Kept(list_lyr, list_lyr') =>
                /\ pc = "returned"
                /\ Len(calls') > Len(calls)
                /\ calls'[Len(calls) + 1] = ListCall("delete", TRUE)]_vars

\* C21 witness: a legacy run inserted a work order, then emptied and refilled
\* the list layer.
C21_Witness ==
    /\ Legacy /\ pc = "workbook"
    /\ Len(work_orders_lyr) > Len(snapshot.lyr)
    /\ \E i \in 1..Len(calls) : calls[i] = ListCall("delete", TRUE)
    /\ \A j \in 1..Len(list_lyr) : list_lyr[j] # OldListRow
    /\ Len(list_lyr) > 0

\* C22: when moveToListService has returned normally, the list layer holds
\* one row per work order of the work-order layer, in its order, each a copy
\* of its work order at the fixed location, and no row it held before.
C22_ListMirrorsWorkOrders ==
    [][pc = "returned" /\ pc' = "workbook" =>
          /\ Len(list_lyr') = Len(work_orders_lyr)
          /\ \A j \in 1..Len(list_lyr') :
                /\ list_lyr'[j].wo = work_orders_lyr[j]
                /\ list_lyr'[j].x = ListX /\ list_lyr'[j].y = ListY
          /\ \A j \in 1..Len(list_lyr'), k \in 1..Len(list_lyr) :
                list_lyr'[j].OBJECTID # list_lyr[k].OBJECTID]_vars

\* C22 witness: a unified run has replaced the row of the run before by the
\* copies of its two work order points.
C22_Witness ==
    /\ ~Legacy /\ pc = "workbook"
    /\ \E i \in 1..Len(calls) : calls[i] = ListCall("delete", TRUE)
    /\ Len(list_lyr) = 2
    /\ \A j \in 1..2 : list_lyr[j].wo = work_orders_lyr[j] /\ list_lyr[j].OBJECTID > 1

(***************************************************************************)
(* Unified model: the choice of the most recent table row on its own       *)
(***************************************************************************)
MaxRows == 3            \* rows in the work-order table

\* LastInspect of a table row: null, or one of two instants.
RowStamps == {None, TodayTick - 10 * TicksPerDay, TodayTick - 3 * TicksPerDay}

\* The asset whose rows are looked for.
ScannedAsset == AssetIDOf(1)

ScanRow(asset_id, lastinsp) ==
    [OBJECTID |-> None, GlobalID |-> None, RELAssetID |-> asset_id,
     created_date |-> TodayTick - 10 * TicksPerDay, LastInspect |-> lastinsp,
     attachments |-> FALSE]

InitMostRecent ==
    /\ today = NoDate /\ pc = "scan" /\ idx = 0 /\ phase = "-"
    /\ assets_lyr = <<>> /\ work_orders_lyr = <<>>
    /\ asset_dict = <<>> /\ op_work_order_dict = EmptyDict
    /\ pe_work_order_dict = EmptyDict
    /\ work_orders_dict = EmptyDict /\ report = EmptyDict /\ calls = <<>>
    /\ paths = None /\ wo_attachments = {} /\ last = <<>>
    /\ eom = [created_date |-> None, next_due_date |-> NoDate, done |-> TRUE]
    /\ snapshot = NoSnapshot /\ list_lyr = <<>> /\ workbook = NoWorkbook /\ mail = <<>>
    /\ run = 1 /\ most_recent_wo_globalid = None
    /\ \E n \in 1..MaxRows :
          \E ids \in [1..n -> {AssetIDOf(1), AssetIDOf(2)}], ls \in [1..n -> RowStamps] :
             work_orders_tbl = NumberedRows([j \in 1..n |-> ScanRow(ids[j], ls[j])])
    /\ wo_table_dict = work_orders_tbl

\* The for loop over wo_table_dict.items() for the scanned asset.
GrabMostRecent ==
    /\ pc = "scan" /\ ScannedAsset \in TableAssetIds(wo_table_dict)
    /\ pc' = "grabbed"
    /\ most_recent_wo_globalid' = MostRecentGlobalId(wo_table_dict, ScannedAsset)
    /\ UNCHANGED <<today, idx, phase, assets_lyr, work_orders_lyr, work_orders_tbl,
                   asset_dict, op_work_order_dict, pe_work_order_dict, wo_table_dict,
                   work_orders_dict, report, calls, paths, wo_attachments, last, eom,
                   snapshot, list_lyr, workbook, mail, run>>

NextMostRecent == GrabMostRecent

SpecMostRecent == InitMostRecent /\ [][NextMostRecent]_vars

\* The rows of the table that reference the scanned asset.
Candidates == {j \in 1..Len(wo_table_dict) : wo_table_dict[j].RELAssetID = ScannedAsset}

\* The rows the policy allows to be chosen: a row without timestamp if there
\* is one, else a row with the latest timestamp.
PolicyChoice ==
    IF \E j \in Candidates : wo_table_dict[j].LastInspect = None
    THEN {j \in Candidates : wo_table_dict[j].LastInspect = None}
    ELSE {j \in Candidates : \A k \in Candidates :
             wo_table_dict[k].LastInspect <= wo_table_dict[j].LastInspect}

\* C23: the row chosen for an asset is a row without timestamp if one of the
\* asset's rows has none, else the asset's row with the latest timestamp, in
\* whatever order the rows come.
C23_NullTimestampRowIsMostRecent ==
    pc = "grabbed" =>
        \E j \in PolicyChoice : wo_table_dict[j].GlobalID = most_recent_wo_globalid

(***************************************************************************)
(* Unified model: the per-category dictionaries                            *)
(***************************************************************************)
\* The three dictionaries of a category, by the overall dictionary they
\* take their rows from.
OwnBuckets(asset_type) ==
    CASE asset_type = "Crane" ->
           [wb_upcoming |-> "crane_upcoming", wb_completed |-> "crane_completed",
            wb_overdue |-> "crane_overdue"]
      [] asset_type = "Extinguisher" ->
           [wb_upcoming |-> "fire_upcoming", wb_completed |-> "fire_completed",
            wb_overdue |-> "fire_overdue"]
      [] asset_type = "Eyewash" ->
           [wb_upcoming |-> "eyewash_upcoming", wb_completed |-> "eyewash_completed",
            wb_overdue |-> "eyewash_overdue"]
      [] OTHER ->
           [wb_upcoming |-> "forktruck_upcoming", wb_completed |-> "forktruck_completed",
            wb_overdue |-> "forktruck_overdue"]

OverallBuckets == {"wb_upcoming", "wb_completed", "wb_overdue"}

CategoryBuckets == DOMAIN report \ OverallBuckets

\* C24: when updateServices has returned, an asset with a report row is in
\* exactly one overall dictionary and in exactly one per-category dictionary,
\* the one of its own category for that overall dictionary, with the same row;
\* an asset without report row is in no dictionary.
C24_OneCategoryBucketPerAsset ==
    pc = "returned" =>
        \A n \in 1..Len(asset_dict) :
            LET a == asset_dict[n]
                k == a.AssetID
                overall == {b \in OverallBuckets : k \in DOMAIN report[b]}
                category == {b \in CategoryBuckets : k \in DOMAIN report[b]}
            IN /\ Cardinality(overall) <= 1
               /\ Cardinality(category) = Cardinality(overall)
               /\ \A b \in overall :
                     /\ category = {OwnBuckets(a.EquipType)[b]}
                     /\ report[OwnBuckets(a.EquipType)[b]][k] = report[b][k]

\* C24 witness: a run has returned with a Completed row for an asset of one
\* category and an Overdue row for an asset of another.
C24_Witness ==
    /\ ~Legacy /\ pc = "returned" /\ Len(asset_dict) = 2
    /\ asset_dict[1].EquipType = "Extinguisher" /\ asset_dict[2].EquipType = "Forklift"
    /\ asset_dict[1].AssetID \in DOMAIN report.fire_completed
    /\ asset_dict[2].AssetID \in DOMAIN report.forktruck_overdue
    /\ Cardinality(DOMAIN report.wb_completed) = 1
    /\ Cardinality(DOMAIN report.wb_overdue) = 1

(***************************************************************************)
(* Legacy model: correlation of work orders                                *)
(***************************************************************************)
\* The work orders of the class that the layer held for HazardID h with the
\* due date due when buildQueryDictionaries read it.
WorkOrdersDue(kind, h, due) ==
    {j \in 1..Len(snapshot.lyr) :
        /\ snapshot.lyr[j].AssignmentType = kind
        /\ snapshot.lyr[j].HazardID = h
        /\ snapshot.lyr[j].AssignmentDueDate = due}

\* C25: after buildQueryDictionaries an asset of the working set has an entry
\* in the dictionary of a class exactly if the layer holds a work order of
\* that class with its HazardID whose due date is the asset's next due date of
\* that class, and the entry is such a work order.
C25_CorrelatedByOwnDueDate ==
    pc \in {"loop", "returned"} =>
        \A n \in 1..Len(asset_dict), kind \in Kinds :
            LET a == asset_dict[n]
                h == a.HazardID
                d == LegacyDict(kind)
            IN /\ h \in DOMAIN d <=> WorkOrdersDue(kind, h, NextInspect(kind, a)) # {}
               /\ h \in DOMAIN d =>
                     \E j \in WorkOrdersDue(kind, h, NextInspect(kind, a)) :
                        d[h].OBJECTID = snapshot.lyr[j].OBJECTID

(***************************************************************************)
(* Consecutive runs                                                        *)
(***************************************************************************)
MaxRuns == 2            \* runs of the script, one a day

\* The script is started again the day after a run has ended: the process
\* starts with nothing but the remote layers, the archive and the mail sent.
StartNextRun(empty_report) ==
    /\ Ended /\ run < MaxRuns
    /\ run' = run + 1
    /\ today' = plusdays(today, 1)
    /\ pc' = "build"
    /\ idx' = 1
    /\ asset_dict' = <<>>
    /\ op_work_order_dict' = EmptyDict
    /\ pe_work_order_dict' = EmptyDict
    /\ wo_table_dict' = <<>>
    /\ work_orders_dict' = EmptyDict
    /\ report' = empty_report
    /\ paths' = None
    /\ workbook' = NoWorkbook
    /\ snapshot' = NoSnapshot
    /\ UNCHANGED <<phase, assets_lyr, work_orders_lyr, work_orders_tbl, calls,
                   wo_attachments, last, eom, list_lyr, mail, most_recent_wo_globalid>>

RunLegacyAgain == Legacy /\ StartNextRun(EmptyReport)

InitLegacyRuns == InitLegacyRun

NextLegacyRuns == NextLegacyRun \/ RunLegacyAgain

SpecLegacyRuns == InitLegacyRuns /\ [][NextLegacyRuns]_vars

\* The inserts of work orders that went through, over all runs.
Inserted == {i \in 1..Len(calls) : calls[i].op = "add_wo" /\ calls[i].ok}

\* C26: over the runs no two work orders of the same class are inserted for
\* the same asset with the same due date.
C26_NoDuplicateWorkOrder ==
    \A i, j \in Inserted :
        (/\ calls[i].kind = calls[j].kind
         /\ calls[i].key = calls[j].key
         /\ calls[i].due = calls[j].due) => i = j

(***************************************************************************)
(* Legacy model: the work order that receives the attachments              *)
(***************************************************************************)
\* The work order with OBJECTID oid was inserted by this run.
InsertedByRun(oid) == oid > Len(snapshot.lyr)

\* C27: attachments are added only to a work order this run inserted for the
\* asset and the class the loop step is about.
C27_AttachmentsOnNewWorkOrder ==
    \A i \in 1..Len(calls) :
        calls[i].op = "add_attachment" /\ calls[i].ok =>
            /\ InsertedByRun(calls[i].oid)
            /\ work_orders_lyr[calls[i].oid].HazardID = calls[i].key
            /\ work_orders_lyr[calls[i].oid].AssignmentType = calls[i].kind

(***************************************************************************)
(* Unified model: consecutive runs                                         *)
(***************************************************************************)
Sunday == 6

\* The first run is on a Sunday, the next on the Monday.
FirstRunDays == {t \in RunDays : Weekday(fromtimestamp(t)) = Sunday}

RunUnifiedAgain == ~Legacy /\ StartNextRun(EmptyWorkbook)

InitUnifiedRuns ==
    StartUnified(FirstRunDays, PlainUnifiedProfiles, PlainUnifiedProfiles, {<<>>})

NextUnifiedRuns == NextUnifiedRun \/ RunUnifiedAgain

SpecUnifiedRuns == InitUnifiedRuns /\ [][NextUnifiedRuns]_vars

\* The asset updates of the completed branch for asset id k, over all runs.
Completions(k) == {i \in 1..Len(calls) : calls[i].op = "update_asset" /\ calls[i].key = k}

\* The loop steps that recorded a Completed row for asset id k, over all runs.
CompletedSteps(k) ==
    {i \in 1..Len(last) : last[i].key = k /\ last[i].branch = "completed"
                          /\ ~last[i].raised}

AssetIds == {AssetIDOf(i) : i \in 1..NumAssets}

\* C28: once the asset update of a completion has succeeded, no later loop
\* step takes the completed branch for that asset (the table gets no newer
\* row): every Completed row comes with an asset update, no asset update
\* follows one that succeeded, and an asset whose updates all succeeded has
\* one Completed row over all the runs.
C28_CompletionReportedOnce ==
    \A k \in AssetIds :
        /\ k \in DOMAIN report.wb_completed => Completions(k) # {}
        /\ Cardinality(CompletedSteps(k)) <= Cardinality(Completions(k))
        /\ \A i, j \in Completions(k) : calls[i].ok => j <= i
        /\ (\A i \in Completions(k) : calls[i].ok) => Cardinality(CompletedSteps(k)) <= 1

\* C28 witness: the first run recorded a completion and updated the asset;
\* the second run has visited the asset again, found the row outdated and
\* filed the asset by its new due date.
C28_Witness ==
    /\ ~Legacy /\ run = 2 /\ pc = "returned"
    /\ \E k \in AssetIds :
          /\ \E i \in Completions(k) : calls[i].ok
          /\ Cardinality(CompletedSteps(k)) = 1
          /\ Cardinality({i \in 1..Len(last) : last[i].key = k}) = 2
          /\ HasTableRow(k)
          /\ k \in DOMAIN report.wb_upcoming
          /\ k \notin DOMAIN report.wb_completed

\* Every run so far went through without an exception or a failed request.
AllSucceeded ==
    /\ \A i \in 1..Len(calls) : calls[i].ok
    /\ \A i \in 1..Len(last) : ~last[i].raised /\ last[i].kind # "alert"

\* The report emails whose workbook has the Completed row of asset id k for
\* the completion at the instant t.
ReportedCompletion(k, t) ==
    {i \in 1..Len(mail) :
        /\ mail[i].subject = "report"
        /\ k \in DOMAIN mail[i].att.sheets.wb_completed
        /\ mail[i].att.sheets.wb_completed[k].complete = fromtimestamp(t)}

\* C30: when the last of the runs has ended and no remote call has failed,
\* every completion a run recorded is in a workbook that was emailed.
C30_CompletionIsEmailed ==
    (run = MaxRuns /\ pc = "done" /\ AllSucceeded) =>
        \A k \in AssetIds : \A i \in Completions(k) :
            ReportedCompletion(k, calls[i].last) # {}

(***************************************************************************)
(* Unified model: an interval that is none of the named frequencies        *)
(***************************************************************************)
\* C29: when the completed branch is taken for an asset whose interval is no
\* key of insp_interval_dict, the loop body runs to its end, the Completed
\* row carries the asset's existing next-inspection date as the next due
\* date, and the run goes on.
C29_UnnamedIntervalKeepsDueDate ==
    \A n \in 1..Len(asset_dict) :
        LET a == asset_dict[n]
            k == a.AssetID
        IN (BranchTaken(k, "completed") /\ a.InspectInterval \notin DOMAIN insp_interval_dict)
              => /\ Reconciled(k)
                 /\ pc # "failed"
                 /\ k \in DOMAIN report.wb_completed
                 /\ report.wb_completed[k].due = fromtimestamp(a.NextInspection)

====
